---- MODULE Spec2Model ----
(***************************************************************************)
(* A model of the datastar-go server-sent event generator                  *)
(* (package datastar): ServerSentEventGenerator.Send and IsClosed under    *)
(* concurrent callers, the event frame encoder, and the PatchElements,     *)
(* PatchSignals and ExecuteScript wrappers.                                 *)
(*                                                                         *)
(* A Go string or []byte is a sequence of one-character strings, so that   *)
(* splitting, joining and prefixing are computed and not assumed.          *)
(***************************************************************************)
EXTENDS Integers, Sequences, FiniteSets, TLC

\* ------------------------------------------------------------------ bounds

\* Goroutines that share one generator.
NumGoroutines == 2
\* Calls made on the generator, over all goroutines.
MaxCalls == 2
\* Failures the sink and the flushes may report, over the whole run.
MaxFaults == 1
\* Longest list of data lines handed to Send directly.
MaxDataLines == 2
\* Longest list of options handed to one wrapper call.
MaxOpts == 3
\* Longest list of options handed to Send directly.
MaxSendOpts == 2
\* Longest list of options handed to WithCompression.
MaxCompressionOpts == 3
\* Longest query of a request handed to ReadSignals, in pairs.
MaxQueryPairs == 2
\* Most bytes put before, and after, a string handed to
\* ElementPatchModeFromString.
MaxPad == 1
\* Most options NewSSE is called with, in the runs with several options.
MaxSSEOpts == 2
\* Most options of a call of the encoder runs on values of any content.
MaxAnyOpts == 2

\* ------------------------------------------------------------ byte strings

\* The concatenation of a sequence of byte strings.
RECURSIVE Flatten(_)
Flatten(ss) ==
    IF ss = <<>> THEN <<>> ELSE Head(ss) \o Flatten(Tail(ss))

\* bytes.IndexByte: the first position of c in s, 0 when there is none.
IndexByte(s, c) ==
    IF \E i \in 1..Len(s) : s[i] = c
    THEN CHOOSE i \in 1..Len(s) : s[i] = c /\ \A j \in 1..(i - 1) : s[j] # c
    ELSE 0

\* A split into lines as a line scanner makes it: what follows the last
\* separator is a piece only when it is not empty.
RECURSIVE SplitLines(_, _)
SplitLines(s, sep) ==
    LET i == IndexByte(s, sep) IN
    IF i = 0 THEN (IF s = <<>> THEN <<>> ELSE <<s>>)
    ELSE <<SubSeq(s, 1, i - 1)>> \o SplitLines(SubSeq(s, i + 1, Len(s)), sep)

\* strings.Split(s, "\n") and bytes.Split(s, newLineBuf): the pieces between
\* the separators; a string without separator, the empty one included, is one
\* piece.
RECURSIVE Split(_, _)
Split(s, sep) ==
    LET i == IndexByte(s, sep) IN
    IF i = 0 THEN <<s>>
    ELSE <<SubSeq(s, 1, i - 1)>> \o Split(SubSeq(s, i + 1, Len(s)), sep)

\* One decimal digit as a byte.
Digit(d) ==
    CASE d = 0 -> "0" [] d = 1 -> "1" [] d = 2 -> "2" [] d = 3 -> "3"
      [] d = 4 -> "4" [] d = 5 -> "5" [] d = 6 -> "6" [] d = 7 -> "7"
      [] d = 8 -> "8" [] d = 9 -> "9"

\* strconv.Itoa: the decimal digits of n, most significant first, after a
\* minus sign when n is negative.
RECURSIVE Itoa(_)
Itoa(n) ==
    IF n < 0 THEN <<"-">> \o Itoa(0 - n)
    ELSE IF n < 10 THEN <<Digit(n)>>
    ELSE Itoa(n \div 10) \o <<Digit(n % 10)>>

\* strconv.FormatBool.
FormatBool(b) ==
    IF b THEN <<"t", "r", "u", "e">> ELSE <<"f", "a", "l", "s", "e">>

\* ---------------------------------------------------------------- durations

\* A time.Duration is a count of nanoseconds.
Millisecond == 1000 * 1000

\* A count of milliseconds that takes a started millisecond for a whole one.
MillisecondsRoundedUp(d) ==
    IF d >= 0 THEN (d + Millisecond - 1) \div Millisecond
    ELSE 0 - ((0 - d) \div Millisecond)

\* time.Duration.Milliseconds: integer division, truncated toward zero.
Milliseconds(d) ==
    IF d >= 0 THEN d \div Millisecond ELSE 0 - ((0 - d) \div Millisecond)

\* ---------------------------------------------------------------- constants

NewLine == "\n"
newLineBuf == <<NewLine>>
doubleNewLineBuf == <<NewLine, NewLine>>

eventLinePrefix == <<"e", "v", "e", "n", "t", ":", " ">>
idLinePrefix == <<"i", "d", ":", " ">>
retryLinePrefix == <<"r", "e", "t", "r", "y", ":", " ">>
dataLinePrefix == <<"d", "a", "t", "a", ":", " ">>

\* The generated constants of the package (consts.go).
DefaultSseRetryDuration == 1000 * Millisecond
EventTypePatchElements ==
    <<"d", "a", "t", "a", "s", "t", "a", "r", "-", "p", "a", "t", "c", "h",
      "-", "e", "l", "e", "m", "e", "n", "t", "s">>
EventTypePatchSignals ==
    <<"d", "a", "t", "a", "s", "t", "a", "r", "-", "p", "a", "t", "c", "h",
      "-", "s", "i", "g", "n", "a", "l", "s">>
SelectorDatalineLiteral == <<"s", "e", "l", "e", "c", "t", "o", "r", " ">>
ModeDatalineLiteral == <<"m", "o", "d", "e", " ">>
ElementsDatalineLiteral == <<"e", "l", "e", "m", "e", "n", "t", "s", " ">>
UseViewTransitionDatalineLiteral ==
    <<"u", "s", "e", "V", "i", "e", "w", "T", "r", "a", "n", "s", "i", "t",
      "i", "o", "n", " ">>
OnlyIfMissingDatalineLiteral ==
    <<"o", "n", "l", "y", "I", "f", "M", "i", "s", "s", "i", "n", "g", " ">>
SignalsDatalineLiteral == <<"s", "i", "g", "n", "a", "l", "s", " ">>
ElementPatchModeOuter == <<"o", "u", "t", "e", "r">>
ElementPatchModeInner == <<"i", "n", "n", "e", "r">>
ElementPatchModeRemove == <<"r", "e", "m", "o", "v", "e">>
ElementPatchModeAppend == <<"a", "p", "p", "e", "n", "d">>
ElementPatchModePrepend == <<"p", "r", "e", "p", "e", "n", "d">>
ElementPatchModeBefore == <<"b", "e", "f", "o", "r", "e">>
ElementPatchModeAfter == <<"a", "f", "t", "e", "r">>
ElementPatchModeReplace == <<"r", "e", "p", "l", "a", "c", "e">>

\* ------------------------------------------------------------------ options

\* An option closure is the record of its name and captured argument: a byte
\* string s, a duration d, a flag b or a list l of byte strings.
Opt(name, s, d, b, l) == [name |-> name, s |-> s, d |-> d, b |-> b, l |-> l]

WithSSEEventId(id) == Opt("WithSSEEventId", id, 0, FALSE, <<>>)
WithSSERetryDuration(d) == Opt("WithSSERetryDuration", <<>>, d, FALSE, <<>>)

\* One SSEEventOption applied to the event under construction.
ApplySSEEventOption(e, o) ==
    CASE o.name = "WithSSEEventId" -> [e EXCEPT !.EventID = o.s]
      [] o.name = "WithSSERetryDuration" -> [e EXCEPT !.RetryDuration = o.d]

\* Send, "create the event" and "apply options": the options in call order.
RECURSIVE ApplySSEEventOptions(_, _)
ApplySSEEventOptions(e, opts) ==
    IF opts = <<>> THEN e
    ELSE ApplySSEEventOptions(ApplySSEEventOption(e, Head(opts)), Tail(opts))

serverSentEventData(eventType, dataLines, opts) ==
    ApplySSEEventOptions(
        [Type |-> eventType, EventID |-> <<>>, Data |-> dataLines,
         RetryDuration |-> DefaultSseRetryDuration],
        opts)

\* ------------------------------------------------------------ frame encoder

\* Send, "write event type".
WriteEventType(buf, evt) ==
    buf \o eventLinePrefix \o evt.Type \o newLineBuf

\* Send, "write id if needed".
WriteEventId(buf, evt) ==
    IF evt.EventID # <<>>
    THEN buf \o idLinePrefix \o evt.EventID \o newLineBuf
    ELSE buf

\* Mutant of RetryNeeded: the test for a positive duration is missing.
RetryNeededAnyNonDefault(d) ==
    Milliseconds(d) # Milliseconds(DefaultSseRetryDuration)

\* Send, the condition of "write retry if needed".
RetryNeeded(d) ==
    /\ Milliseconds(d) > 0
    /\ Milliseconds(d) # Milliseconds(DefaultSseRetryDuration)

\* Send, "write retry if needed".
WriteRetry(buf, evt) ==
    IF RetryNeeded(evt.RetryDuration)
    THEN buf \o retryLinePrefix \o Itoa(Milliseconds(evt.RetryDuration))
             \o newLineBuf
    ELSE buf

\* Send, "write data lines": the loop over evt.Data.
RECURSIVE WriteDataLines(_, _)
WriteDataLines(buf, data) ==
    IF data = <<>> THEN buf
    ELSE WriteDataLines(buf \o dataLinePrefix \o Head(data) \o newLineBuf,
                        Tail(data))

\* Send, "write double newlines to separate events".
WriteEventEnd(buf) ==
    buf \o doubleNewLineBuf

\* Mutant of EncodeEvent: the retry line is written before the id line.
EncodeEventRetryBeforeId(evt) ==
    WriteEventEnd(
        WriteDataLines(
            WriteEventId(WriteRetry(WriteEventType(<<>>, evt), evt), evt),
            evt.Data))

\* The scratch buffer of one Send when it is handed to the sink.
EncodeEvent(evt) ==
    WriteEventEnd(
        WriteDataLines(
            WriteRetry(WriteEventId(WriteEventType(<<>>, evt), evt), evt),
            evt.Data))

\* The arguments of one Send call.
SendArgs(eventType, dataLines, opts) ==
    [eventType |-> eventType, dataLines |-> dataLines, opts |-> opts]

\* The frame Send writes for its arguments.
SendFrame(a) ==
    EncodeEvent(serverSentEventData(a.eventType, a.dataLines, a.opts))

\* A Send whose event takes the id and the retry duration of the event sent
\* before it when its own options set none.
EventAfterLast(a, sent) ==
    LET evt == serverSentEventData(a.eventType, a.dataLines, a.opts) IN
    IF sent = <<>> THEN evt
    ELSE LET last == sent[Len(sent)].evt IN
         [evt EXCEPT
             !.EventID = IF @ = <<>> THEN last.EventID ELSE @,
             !.RetryDuration = IF @ = DefaultSseRetryDuration
                               THEN last.RetryDuration ELSE @]

\* Send, "create the event" and "apply options": evt is a variable of the
\* call, built from its arguments; the events sent before it (sent) have no
\* part in it.
EventOf(a, sent) == serverSentEventData(a.eventType, a.dataLines, a.opts)

\* ------------------------------------------------------------ PatchElements

WithPatchElementsEventID(id) ==
    Opt("WithPatchElementsEventID", id, 0, FALSE, <<>>)
WithSelector(selector) == Opt("WithSelector", selector, 0, FALSE, <<>>)
WithMode(merge) == Opt("WithMode", merge, 0, FALSE, <<>>)
WithUseViewTransitions(b) == Opt("WithUseViewTransitions", <<>>, 0, b, <<>>)
WithRetryDuration(d) == Opt("WithRetryDuration", <<>>, d, FALSE, <<>>)
WithModeAppend == WithMode(ElementPatchModeAppend)

\* One PatchElementOption applied to the options under construction.
ApplyPatchElementOption(o, opt) ==
    CASE opt.name = "WithPatchElementsEventID" -> [o EXCEPT !.EventID = opt.s]
      [] opt.name = "WithSelector" -> [o EXCEPT !.Selector = opt.s]
      [] opt.name = "WithMode" -> [o EXCEPT !.Mode = opt.s]
      [] opt.name = "WithUseViewTransitions" ->
             [o EXCEPT !.UseViewTransitions = opt.b]
      [] opt.name = "WithRetryDuration" -> [o EXCEPT !.RetryDuration = opt.d]

RECURSIVE ApplyPatchElementOptions(_, _)
ApplyPatchElementOptions(o, opts) ==
    IF opts = <<>> THEN o
    ELSE ApplyPatchElementOptions(ApplyPatchElementOption(o, Head(opts)),
                                  Tail(opts))

\* PatchElements, the defaults and the loop over opts.
patchElementOptions(opts) ==
    ApplyPatchElementOptions(
        [EventID |-> <<>>, RetryDuration |-> DefaultSseRetryDuration,
         Selector |-> <<>>, Mode |-> ElementPatchModeOuter,
         UseViewTransitions |-> FALSE],
        opts)

\* PatchElements, sendOptions.
PatchElementsSendOptions(options) ==
    (IF options.EventID # <<>>
     THEN <<WithSSEEventId(options.EventID)>> ELSE <<>>)
    \o (IF options.RetryDuration > 0
        THEN <<WithSSERetryDuration(options.RetryDuration)>> ELSE <<>>)

\* Each piece with the dataline literal in front of it.
Prefixed(literal, parts) ==
    [i \in 1..Len(parts) |-> literal \o parts[i]]

\* A PatchElements that splits the elements whether or not they are empty.
ElementsRowsAlways(elements) ==
    Prefixed(ElementsDatalineLiteral, Split(elements, NewLine))

\* PatchElements, dataRows: the elements lines.
ElementsRows(elements) ==
    IF elements # <<>>
    THEN Prefixed(ElementsDatalineLiteral, Split(elements, NewLine))
    ELSE <<>>

\* Mutant of PatchElementsDataRows: the mode line is appended before the
\* selector line.
PatchElementsDataRowsModeFirst(elements, options) ==
    (IF options.Mode # ElementPatchModeOuter
     THEN <<ModeDatalineLiteral \o options.Mode>> ELSE <<>>)
    \o (IF options.Selector # <<>>
        THEN <<SelectorDatalineLiteral \o options.Selector>> ELSE <<>>)
    \o (IF options.UseViewTransitions
        THEN <<UseViewTransitionDatalineLiteral \o FormatBool(TRUE)>>
        ELSE <<>>)
    \o ElementsRows(elements)

\* PatchElements, dataRows.
PatchElementsDataRows(elements, options) ==
    (IF options.Selector # <<>>
     THEN <<SelectorDatalineLiteral \o options.Selector>> ELSE <<>>)
    \o (IF options.Mode # ElementPatchModeOuter
        THEN <<ModeDatalineLiteral \o options.Mode>> ELSE <<>>)
    \o (IF options.UseViewTransitions
        THEN <<UseViewTransitionDatalineLiteral \o FormatBool(TRUE)>>
        ELSE <<>>)
    \o ElementsRows(elements)

\* PatchElements: the Send call it makes.
PatchElements(elements, opts) ==
    LET options == patchElementOptions(opts) IN
    SendArgs(EventTypePatchElements,
             PatchElementsDataRows(elements, options),
             PatchElementsSendOptions(options))

\* ------------------------------------------------------------ RemoveElement

WithModeRemove == WithMode(ElementPatchModeRemove)

\* RemoveElement: PatchElements of no elements, with the remove mode and the
\* selector put in front of the caller's options.
RemoveElement(selector, opts) ==
    PatchElements(<<>>, <<WithModeRemove, WithSelector(selector)>> \o opts)

\* ------------------------------------------------------------- PatchSignals

WithPatchSignalsEventID(id) ==
    Opt("WithPatchSignalsEventID", id, 0, FALSE, <<>>)
WithPatchSignalsRetryDuration(d) ==
    Opt("WithPatchSignalsRetryDuration", <<>>, d, FALSE, <<>>)
WithOnlyIfMissing(b) == Opt("WithOnlyIfMissing", <<>>, 0, b, <<>>)

ApplyPatchSignalsOption(o, opt) ==
    CASE opt.name = "WithPatchSignalsEventID" -> [o EXCEPT !.EventID = opt.s]
      [] opt.name = "WithPatchSignalsRetryDuration" ->
             [o EXCEPT !.RetryDuration = opt.d]
      [] opt.name = "WithOnlyIfMissing" -> [o EXCEPT !.OnlyIfMissing = opt.b]

RECURSIVE ApplyPatchSignalsOptions(_, _)
ApplyPatchSignalsOptions(o, opts) ==
    IF opts = <<>> THEN o
    ELSE ApplyPatchSignalsOptions(ApplyPatchSignalsOption(o, Head(opts)),
                                  Tail(opts))

\* PatchSignals, the defaults and the loop over opts.
patchSignalsOptions(opts) ==
    ApplyPatchSignalsOptions(
        [EventID |-> <<>>, RetryDuration |-> DefaultSseRetryDuration,
         OnlyIfMissing |-> FALSE],
        opts)

\* Mutant of PatchSignalsDataRows: the onlyIfMissing line is appended after
\* the signals lines.
PatchSignalsDataRowsSignalsFirst(signalsContents, options) ==
    Prefixed(SignalsDatalineLiteral, Split(signalsContents, NewLine))
    \o (IF options.OnlyIfMissing
        THEN <<OnlyIfMissingDatalineLiteral
               \o FormatBool(options.OnlyIfMissing)>>
        ELSE <<>>)

\* PatchSignals, dataRows.
PatchSignalsDataRows(signalsContents, options) ==
    (IF options.OnlyIfMissing
     THEN <<OnlyIfMissingDatalineLiteral \o FormatBool(options.OnlyIfMissing)>>
     ELSE <<>>)
    \o Prefixed(SignalsDatalineLiteral, Split(signalsContents, NewLine))

\* PatchSignals, sendOptions.
PatchSignalsSendOptions(options) ==
    (IF options.EventID # <<>>
     THEN <<WithSSEEventId(options.EventID)>> ELSE <<>>)
    \o (IF options.RetryDuration # DefaultSseRetryDuration
        THEN <<WithSSERetryDuration(options.RetryDuration)>> ELSE <<>>)

\* PatchSignals: the Send call it makes.
PatchSignals(signalsContents, opts) ==
    LET options == patchSignalsOptions(opts) IN
    SendArgs(EventTypePatchSignals,
             PatchSignalsDataRows(signalsContents, options),
             PatchSignalsSendOptions(options))

\* ------------------------------------------------------------ ExecuteScript

WithExecuteScriptEventID(id) ==
    Opt("WithExecuteScriptEventID", id, 0, FALSE, <<>>)
WithExecuteScriptRetryDuration(d) ==
    Opt("WithExecuteScriptRetryDuration", <<>>, d, FALSE, <<>>)
WithExecuteScriptAutoRemove(b) ==
    Opt("WithExecuteScriptAutoRemove", <<>>, 0, b, <<>>)
WithExecuteScriptAttributes(attributes) ==
    Opt("WithExecuteScriptAttributes", <<>>, 0, FALSE, attributes)

\* AutoRemove is a *bool: "nil" until the option sets it.
ApplyExecuteScriptOption(o, opt) ==
    CASE opt.name = "WithExecuteScriptEventID" -> [o EXCEPT !.EventID = opt.s]
      [] opt.name = "WithExecuteScriptRetryDuration" ->
             [o EXCEPT !.RetryDuration = opt.d]
      [] opt.name = "WithExecuteScriptAutoRemove" ->
             [o EXCEPT !.AutoRemove = IF opt.b THEN "true" ELSE "false"]
      [] opt.name = "WithExecuteScriptAttributes" ->
             [o EXCEPT !.Attributes = opt.l]

RECURSIVE ApplyExecuteScriptOptions(_, _)
ApplyExecuteScriptOptions(o, opts) ==
    IF opts = <<>> THEN o
    ELSE ApplyExecuteScriptOptions(ApplyExecuteScriptOption(o, Head(opts)),
                                   Tail(opts))

\* ExecuteScript, the defaults and the loop over opts.
executeScriptOptions(opts) ==
    ApplyExecuteScriptOptions(
        [EventID |-> <<>>, AutoRemove |-> "nil", Attributes |-> <<>>,
         RetryDuration |-> DefaultSseRetryDuration],
        opts)

\* ExecuteScript, the loop over options.Attributes.
RECURSIVE WriteAttributes(_, _)
WriteAttributes(sb, attributes) ==
    IF attributes = <<>> THEN sb
    ELSE WriteAttributes(sb \o <<" ">> \o Head(attributes), Tail(attributes))

\* Mutant of WriteAutoRemove: the attribute is written only when auto-remove
\* was set to true, not when it was left unset.
WriteAutoRemoveOnlyIfSet(sb, options) ==
    IF options.AutoRemove = "true"
    THEN sb \o <<" ", "d", "a", "t", "a", "-", "e", "f", "f", "e", "c", "t",
                 "=", "\"", "e", "l", ".", "r", "e", "m", "o", "v", "e", "(",
                 ")", "\"">>
    ELSE sb

\* ExecuteScript, the auto-remove attribute.
WriteAutoRemove(sb, options) ==
    IF options.AutoRemove = "nil" \/ options.AutoRemove = "true"
    THEN sb \o <<" ", "d", "a", "t", "a", "-", "e", "f", "f", "e", "c", "t",
                 "=", "\"", "e", "l", ".", "r", "e", "m", "o", "v", "e", "(",
                 ")", "\"">>
    ELSE sb

\* ExecuteScript, "Build the script element".
ScriptElement(scriptContents, options) ==
    WriteAutoRemove(
        WriteAttributes(<<"<", "s", "c", "r", "i", "p", "t">>,
                        options.Attributes),
        options)
    \o <<">">> \o scriptContents
    \o <<"<", "/", "s", "c", "r", "i", "p", "t", ">">>

\* ExecuteScript, patchOpts.
ExecuteScriptPatchOpts(options) ==
    <<WithSelector(<<"b", "o", "d", "y">>), WithModeAppend>>
    \o (IF options.EventID # <<>>
        THEN <<WithPatchElementsEventID(options.EventID)>> ELSE <<>>)
    \o (IF options.RetryDuration > 0
        THEN <<WithRetryDuration(options.RetryDuration)>> ELSE <<>>)

\* ExecuteScript: the Send call it makes, through PatchElements.
ExecuteScript(scriptContents, opts) ==
    LET options == executeScriptOptions(opts) IN
    PatchElements(ScriptElement(scriptContents, options),
                  ExecuteScriptPatchOpts(options))

\* -------------------------------------------------------------- compression

\* CompressionStrategy.
ClientPriority == "client_priority"
ServerPriority == "server_priority"
Forced == "forced"

\* The encoding tokens of the compressor packages: gzip.Encoding,
\* zlib.Encoding, brotli.Encoding, zstd.Encoding.
GzipEncoding == <<"g", "z", "i", "p">>
DeflateEncoding == <<"d", "e", "f", "l", "a", "t", "e">>
BrotliEncoding == <<"b", "r">>
ZstdEncoding == <<"z", "s", "t", "d">>

\* Compressor: an encoding token and the provider that wraps a writer for it.
Compressor(encoding) == [Encoding |-> encoding]

WithGzip == Opt("WithGzip", <<>>, 0, FALSE, <<>>)
WithDeflate == Opt("WithDeflate", <<>>, 0, FALSE, <<>>)
WithBrotli == Opt("WithBrotli", <<>>, 0, FALSE, <<>>)
WithZstd == Opt("WithZstd", <<>>, 0, FALSE, <<>>)
WithClientPriority == Opt("WithClientPriority", <<>>, 0, FALSE, <<>>)
WithServerPriority == Opt("WithServerPriority", <<>>, 0, FALSE, <<>>)
WithForced == Opt("WithForced", <<>>, 0, FALSE, <<>>)
WithCompression(opts) == Opt("WithCompression", <<>>, 0, FALSE, opts)

\* One CompressionOption applied to the configuration.
ApplyCompressionOption(cfg, o) ==
    CASE o.name = "WithGzip" ->
             [cfg EXCEPT !.Compressors = Append(@, Compressor(GzipEncoding))]
      [] o.name = "WithDeflate" ->
             [cfg EXCEPT !.Compressors = Append(@, Compressor(DeflateEncoding))]
      [] o.name = "WithBrotli" ->
             [cfg EXCEPT !.Compressors = Append(@, Compressor(BrotliEncoding))]
      [] o.name = "WithZstd" ->
             [cfg EXCEPT !.Compressors = Append(@, Compressor(ZstdEncoding))]
      [] o.name = "WithClientPriority" ->
             [cfg EXCEPT !.CompressionStrategy = ClientPriority]
      [] o.name = "WithServerPriority" ->
             [cfg EXCEPT !.CompressionStrategy = ServerPriority]
      [] o.name = "WithForced" ->
             [cfg EXCEPT !.CompressionStrategy = Forced]

\* WithCompression, "apply options".
RECURSIVE ApplyCompressionOptions(_, _)
ApplyCompressionOptions(cfg, opts) ==
    IF opts = <<>> THEN cfg
    ELSE ApplyCompressionOptions(ApplyCompressionOption(cfg, Head(opts)),
                                 Tail(opts))

\* unicode.IsSpace on the bytes a header can hold.
IsSpace(c) == c \in {" ", "\t", "\n", "\r"}

\* strings.TrimSpace.
RECURSIVE TrimSpace(_)
TrimSpace(s) ==
    IF s = <<>> THEN s
    ELSE IF IsSpace(s[1]) THEN TrimSpace(Tail(s))
    ELSE IF IsSpace(s[Len(s)]) THEN TrimSpace(SubSeq(s, 1, Len(s) - 1))
    ELSE s

\* strings.SplitN(s, ";", 2)[0]: s up to its first semicolon.
BeforeSemicolon(s) ==
    LET i == IndexByte(s, ";") IN
    IF i = 0 THEN s ELSE SubSeq(s, 1, i - 1)

\* parseEncodings, the loop over the parts of the header.
RECURSIVE ParseParts(_)
ParseParts(parts) ==
    IF parts = <<>> THEN <<>>
    ELSE LET token == BeforeSemicolon(TrimSpace(Head(parts))) IN
         (IF token # <<>> THEN <<token>> ELSE <<>>) \o ParseParts(Tail(parts))

\* parseEncodings: the tokens of an Accept-Encoding header, in header order.
parseEncodings(header) == ParseParts(Split(header, ","))

\* WithCompression, "set defaults".
WithDefaultCompressors(cfg) ==
    IF Len(cfg.Compressors) = 0
    THEN ApplyCompressionOptions(cfg,
                                 <<WithBrotli, WithZstd, WithGzip, WithDeflate>>)
    ELSE cfg

\* WithCompression: the configuration the selection works on.
compressionOptions(acceptEncoding, opts) ==
    WithDefaultCompressors(
        ApplyCompressionOptions(
            [CompressionStrategy |-> ClientPriority,
             ClientEncodings |-> parseEncodings(acceptEncoding),
             Compressors |-> <<>>],
            opts))

\* The inner loop of both priorities: the first position of a list that holds
\* the token, 0 when none does.
FirstAt(tokens, enc) ==
    IF \E i \in 1..Len(tokens) : tokens[i] = enc
    THEN CHOOSE i \in 1..Len(tokens) :
             tokens[i] = enc /\ \A j \in 1..(i - 1) : tokens[j] # enc
    ELSE 0

\* The encodings of a list of compressors.
Encodings(compressors) ==
    [i \in 1..Len(compressors) |-> compressors[i].Encoding]

\* case ClientPriority: the client's tokens in order, for each the compressors
\* in order; the position of the compressor taken, 0 when the loops end.
RECURSIVE SelectClientPriority(_, _)
SelectClientPriority(clientEncodings, compressors) ==
    IF clientEncodings = <<>> THEN 0
    ELSE LET j == FirstAt(Encodings(compressors), Head(clientEncodings)) IN
         IF j # 0 THEN j
         ELSE SelectClientPriority(Tail(clientEncodings), compressors)

\* case ServerPriority: the compressors in order from position k, for each
\* the client's tokens in order; the position of the compressor taken, 0 when
\* the loops end.
RECURSIVE SelectServerPriority(_, _, _)
SelectServerPriority(clientEncodings, compressors, k) ==
    IF k > Len(compressors) THEN 0
    ELSE IF FirstAt(clientEncodings, compressors[k].Encoding) # 0 THEN k
    ELSE SelectServerPriority(clientEncodings, compressors, k + 1)

\* A forced strategy that gives way to a client that does not list the
\* compressor.
SelectForcedIfAccepted(cfg) ==
    IF /\ Len(cfg.Compressors) > 0
       /\ FirstAt(cfg.ClientEncodings, cfg.Compressors[1].Encoding) # 0
    THEN 1 ELSE 0

\* case Forced.
SelectForced(cfg) == IF Len(cfg.Compressors) > 0 THEN 1 ELSE 0

\* A client priority that walks the compressors first.
SelectByClientServerFirst(cfg) ==
    SelectServerPriority(cfg.ClientEncodings, cfg.Compressors, 1)

\* WithCompression, case ClientPriority.
SelectByClient(cfg) ==
    SelectClientPriority(cfg.ClientEncodings, cfg.Compressors)

\* A server priority that walks the client's tokens first.
SelectByServerClientFirst(cfg) ==
    SelectClientPriority(cfg.ClientEncodings, cfg.Compressors)

\* WithCompression, case ServerPriority.
SelectByServer(cfg) ==
    SelectServerPriority(cfg.ClientEncodings, cfg.Compressors, 1)

\* A switch that falls back on the first compressor when the priorities
\* find none.
SelectCompressorOrFirst(cfg) ==
    LET k == CASE cfg.CompressionStrategy = ClientPriority -> SelectByClient(cfg)
               [] cfg.CompressionStrategy = ServerPriority -> SelectByServer(cfg)
               [] cfg.CompressionStrategy = Forced -> SelectForced(cfg)
    IN IF k = 0 THEN 1 ELSE k

\* WithCompression, the switch on the strategy: the position of the
\* compressor that wraps the writer, 0 when none does.
SelectCompressor(cfg) ==
    CASE cfg.CompressionStrategy = ClientPriority -> SelectByClient(cfg)
      [] cfg.CompressionStrategy = ServerPriority -> SelectByServer(cfg)
      [] cfg.CompressionStrategy = Forced -> SelectForced(cfg)

\* WithCompression applied to a generator with the given Accept-Encoding: the
\* encoding of the compressor that wraps sse.w, empty when none does.
SelectedEncoding(acceptEncoding, opts) ==
    LET cfg == compressionOptions(acceptEncoding, opts)
        k == SelectCompressor(cfg)
    IN IF k = 0 THEN <<>> ELSE cfg.Compressors[k].Encoding

\* ------------------------------------------------------------------- inputs

\* All sequences over S of length at most n.
RECURSIVE SeqsUpTo(_, _)
SeqsUpTo(S, n) ==
    IF n = 0 THEN {<<>>}
    ELSE LET shorter == SeqsUpTo(S, n - 1) IN
         shorter \cup {Append(q, x) : q \in shorter, x \in S}

\* One call on the generator: the operation, its first argument (the event
\* type of Send, the fragment, the payload or the script), the data lines
\* (Send only) and the options in call order.
Call(op, arg, dataLines, opts) ==
    [op |-> op, arg |-> arg, dataLines |-> dataLines, opts |-> opts]

NoCall == Call("none", <<>>, <<>>, <<>>)
NoSend == SendArgs(<<>>, <<>>, <<>>)

EventIds == {<<>>, <<"7">>}

\* Retry durations, in nanoseconds: negative, zero, below one millisecond, the
\* default, the default and a fraction of a millisecond, twice the default.
Durations ==
    {0 - Millisecond, 0, Millisecond \div 2, DefaultSseRetryDuration,
     DefaultSseRetryDuration + (Millisecond \div 2),
     2 * DefaultSseRetryDuration}

DataLineValues == {<<"a">>, <<"b", " ", "c">>}

SSEEventOptions ==
    {WithSSEEventId(id) : id \in EventIds}
    \cup {WithSSERetryDuration(d) : d \in Durations}

SendCalls ==
    {Call("Send", t, dl, o) :
        t \in {EventTypePatchElements, EventTypePatchSignals},
        dl \in SeqsUpTo(DataLineValues, MaxDataLines),
        o \in SeqsUpTo(SSEEventOptions, MaxSendOpts)}

Fragments ==
    {<<>>,
     <<"a">>,
     <<"a", "\n">>,
     <<"<", "b", ">", "h", "i", "<", "/", "b", ">", "\n",
       "<", "i", ">", "l", "o", "<", "/", "i", ">">>}

PatchElementOptions ==
    {WithSelector(<<"#", "x">>), WithMode(ElementPatchModeAppend),
     WithMode(ElementPatchModeOuter), WithUseViewTransitions(TRUE),
     WithUseViewTransitions(FALSE), WithPatchElementsEventID(<<"7">>)}
    \cup {WithRetryDuration(d) : d \in Durations}

PatchElementsCalls ==
    {Call("PatchElements", f, <<>>, o) :
        f \in Fragments, o \in SeqsUpTo(PatchElementOptions, MaxOpts)}

Payloads ==
    {<<>>,
     <<"{", "\"", "a", "\"", ":", "1", "}">>,
     <<"{", "\n", "}">>,
     <<"{", "}", "\n">>}

PatchSignalsOptions ==
    {WithOnlyIfMissing(TRUE), WithOnlyIfMissing(FALSE),
     WithPatchSignalsEventID(<<"7">>)}
    \cup {WithPatchSignalsRetryDuration(d) : d \in Durations}

PatchSignalsCalls ==
    {Call("PatchSignals", s, <<>>, o) :
        s \in Payloads, o \in SeqsUpTo(PatchSignalsOptions, MaxOpts)}

Scripts == {<<>>, <<"f", "(", ")">>, <<"f", "(", ")", "\n", "g", "(", ")">>}

AttrModule ==
    <<"t", "y", "p", "e", "=", "\"", "m", "o", "d", "u", "l", "e", "\"">>
AttrDefer == <<"d", "e", "f", "e", "r">>

ExecuteScriptOptions ==
    {WithExecuteScriptAutoRemove(TRUE), WithExecuteScriptAutoRemove(FALSE),
     WithExecuteScriptAttributes(<<AttrModule>>),
     WithExecuteScriptAttributes(<<AttrDefer, AttrModule>>),
     WithExecuteScriptAttributes(<<AttrModule, AttrDefer>>),
     WithExecuteScriptEventID(<<"7">>)}
    \cup {WithExecuteScriptRetryDuration(d) : d \in Durations}

ExecuteScriptCalls ==
    {Call("ExecuteScript", s, <<>>, o) :
        s \in Scripts, o \in SeqsUpTo(ExecuteScriptOptions, MaxOpts)}

\* The Send call that a call on the generator comes down to.
ToSend(c) ==
    CASE c.op = "Send" -> SendArgs(c.arg, c.dataLines, c.opts)
      [] c.op = "PatchElements" -> PatchElements(c.arg, c.opts)
      [] c.op = "PatchSignals" -> PatchSignals(c.arg, c.opts)
      [] c.op = "ExecuteScript" -> ExecuteScript(c.arg, c.opts)

\* ------------------------------------------------------------------- errors

\* An error is the chain of its messages, outermost first, as fmt.Errorf with
\* %w builds it; nil is the empty chain.
NoError == <<>>

\* An error that names the stage and drops the cause.
WrapDropsCause(msg, err) == <<msg>>

\* fmt.Errorf("<msg>: %w", err).
Wrap(msg, err) == <<msg>> \o err

\* error.Error(): the messages of the chain, joined by ": ".
RECURSIVE ErrorString(_)
ErrorString(err) ==
    IF err = <<>> THEN ""
    ELSE IF Len(err) = 1 THEN err[1]
    ELSE err[1] \o ": " \o ErrorString(Tail(err))

\* context.Context.Err(): nil while the context is live, then context.Canceled
\* or context.DeadlineExceeded.
ContextErrors == {<<"context canceled">>, <<"context deadline exceeded">>}

\* The failure a sink or a flush reports.
IOError == <<"broken pipe">>

\* What a call returns for the error of the Send it made.
CallResult(c, err) ==
    IF err = NoError THEN NoError
    ELSE CASE c.op = "Send" -> err
           [] c.op = "PatchElements" -> Wrap("failed to send elements", err)
           [] c.op = "ExecuteScript" -> Wrap("failed to send elements", err)
           [] c.op = "PatchSignals" ->
                  Wrap("failed to send patch signals", err)

\* --------------------------------------------------------- patch modes

ValidElementPatchModes ==
    <<ElementPatchModeOuter, ElementPatchModeInner, ElementPatchModeRemove,
      ElementPatchModePrepend, ElementPatchModeAppend,
      ElementPatchModeBefore, ElementPatchModeAfter,
      ElementPatchModeReplace>>

\* What ElementPatchModeFromString returns: the mode and the error.
ModeResult(mode, err) == [mode |-> mode, err |-> err]

\* A conversion that takes every string for a mode.
ElementPatchModeFromAnyString(s) == ModeResult(s, NoError)

\* ElementPatchModeFromString: the switch on s. The message of the error
\* ends with s.
ElementPatchModeFromString(s) ==
    CASE s = <<"o", "u", "t", "e", "r">> ->
             ModeResult(ElementPatchModeOuter, NoError)
      [] s = <<"i", "n", "n", "e", "r">> ->
             ModeResult(ElementPatchModeInner, NoError)
      [] s = <<"r", "e", "m", "o", "v", "e">> ->
             ModeResult(ElementPatchModeRemove, NoError)
      [] s = <<"p", "r", "e", "p", "e", "n", "d">> ->
             ModeResult(ElementPatchModePrepend, NoError)
      [] s = <<"a", "p", "p", "e", "n", "d">> ->
             ModeResult(ElementPatchModeAppend, NoError)
      [] s = <<"b", "e", "f", "o", "r", "e">> ->
             ModeResult(ElementPatchModeBefore, NoError)
      [] s = <<"a", "f", "t", "e", "r">> ->
             ModeResult(ElementPatchModeAfter, NoError)
      [] s = <<"r", "e", "p", "l", "a", "c", "e">> ->
             ModeResult(ElementPatchModeReplace, NoError)
      [] OTHER -> ModeResult(<<>>, <<"invalid element merge type">>)

\* ----------------------------------------------------------- encoding/json

\* A JSON value: its kind, and the number (1 for true, 0 for false), the
\* string, or the members or elements in input order.
JSONValue(kind, n, str, parts) ==
    [kind |-> kind, n |-> n, str |-> str, parts |-> parts]

JSONNull == JSONValue("null", 0, <<>>, <<>>)

\* The result of scanning one value: the value and the position after it.
Scanned(v, i) == [ok |-> TRUE, v |-> v, i |-> i]

NotScanned == [ok |-> FALSE, v |-> JSONNull, i |-> 0]

\* The white space of JSON.
IsJSONSpace(c) == c \in {" ", "\t", "\n", "\r"}

\* The first position from i on that holds no white space.
RECURSIVE SkipSpace(_, _)
SkipSpace(s, i) ==
    IF i <= Len(s) /\ IsJSONSpace(s[i]) THEN SkipSpace(s, i + 1) ELSE i

DecimalDigits == {Digit(d) : d \in 0..9}

\* The first position from i on that holds no digit.
RECURSIVE DigitsEnd(_, _)
DigitsEnd(s, i) ==
    IF i <= Len(s) /\ s[i] \in DecimalDigits THEN DigitsEnd(s, i + 1) ELSE i

\* The number a run of digits denotes.
RECURSIVE DigitsValue(_)
DigitsValue(s) ==
    IF s = <<>> THEN 0
    ELSE 10 * DigitsValue(SubSeq(s, 1, Len(s) - 1))
         + (CHOOSE d \in 0..9 : Digit(d) = s[Len(s)])

\* The literal lit stands at position i.
At(s, i, lit) ==
    i + Len(lit) - 1 <= Len(s) /\ SubSeq(s, i, i + Len(lit) - 1) = lit

\* A string, from its opening quote at i to its closing quote; strings with
\* escapes are not among the inputs, and a control character ends the scan.
ScanString(s, i) ==
    LET rest == SubSeq(s, i + 1, Len(s))
        k == IndexByte(rest, "\"")
    IN IF k = 0 THEN NotScanned
       ELSE IF \E j \in 1..(k - 1) : rest[j] \in {"\n", "\t", "\r", "\\"}
       THEN NotScanned
       ELSE Scanned(JSONValue("string", 0, SubSeq(rest, 1, k - 1), <<>>),
                    i + k + 1)

\* An integer: an optional minus sign, then digits without a leading zero.
\* Fractions and exponents are not among the inputs.
ScanNumber(s, i) ==
    LET j == IF s[i] = "-" THEN i + 1 ELSE i
        e == DigitsEnd(s, j)
    IN IF e = j \/ (s[j] = "0" /\ e > j + 1) THEN NotScanned
       ELSE LET n == DigitsValue(SubSeq(s, j, e - 1)) IN
            Scanned(JSONValue("number", IF j > i THEN 0 - n ELSE n,
                              <<>>, <<>>), e)

\* The scanner, by recursive descent: one value from position i, the members
\* of an object from the position of a key, and the elements of an array from
\* the position of an element.
RECURSIVE ScanValue(_, _)
RECURSIVE ScanMembers(_, _, _)
RECURSIVE ScanElements(_, _, _)
ScanValue(s, i) ==
    IF i > Len(s) THEN NotScanned
    ELSE IF s[i] = "{" THEN
        LET j == SkipSpace(s, i + 1) IN
        IF j <= Len(s) /\ s[j] = "}"
        THEN Scanned(JSONValue("object", 0, <<>>, <<>>), j + 1)
        ELSE ScanMembers(s, j, <<>>)
    ELSE IF s[i] = "[" THEN
        LET j == SkipSpace(s, i + 1) IN
        IF j <= Len(s) /\ s[j] = "]"
        THEN Scanned(JSONValue("array", 0, <<>>, <<>>), j + 1)
        ELSE ScanElements(s, j, <<>>)
    ELSE IF s[i] = "\"" THEN ScanString(s, i)
    ELSE IF s[i] = "-" \/ s[i] \in DecimalDigits THEN ScanNumber(s, i)
    ELSE IF At(s, i, <<"t", "r", "u", "e">>)
        THEN Scanned(JSONValue("bool", 1, <<>>, <<>>), i + 4)
    ELSE IF At(s, i, <<"f", "a", "l", "s", "e">>)
        THEN Scanned(JSONValue("bool", 0, <<>>, <<>>), i + 5)
    ELSE IF At(s, i, <<"n", "u", "l", "l">>) THEN Scanned(JSONNull, i + 4)
    ELSE NotScanned

ScanMembers(s, i, members) ==
    IF i > Len(s) \/ s[i] # "\"" THEN NotScanned
    ELSE LET k == ScanString(s, i) IN
    IF ~k.ok THEN NotScanned
    ELSE LET c == SkipSpace(s, k.i) IN
    IF c > Len(s) \/ s[c] # ":" THEN NotScanned
    ELSE LET v == ScanValue(s, SkipSpace(s, c + 1)) IN
    IF ~v.ok THEN NotScanned
    ELSE LET d == SkipSpace(s, v.i)
             all == Append(members, [key |-> k.v.str, value |-> v.v])
         IN IF d > Len(s) THEN NotScanned
            ELSE IF s[d] = "," THEN ScanMembers(s, SkipSpace(s, d + 1), all)
            ELSE IF s[d] = "}"
                THEN Scanned(JSONValue("object", 0, <<>>, all), d + 1)
            ELSE NotScanned

ScanElements(s, i, elements) ==
    LET v == ScanValue(s, i) IN
    IF ~v.ok THEN NotScanned
    ELSE LET d == SkipSpace(s, v.i)
             all == Append(elements, v.v)
         IN IF d > Len(s) THEN NotScanned
            ELSE IF s[d] = "," THEN ScanElements(s, SkipSpace(s, d + 1), all)
            ELSE IF s[d] = "]"
                THEN Scanned(JSONValue("array", 0, <<>>, all), d + 1)
            ELSE NotScanned

\* checkValid: the data is one JSON value between white space.
ScanDocument(data) ==
    LET v == ScanValue(data, SkipSpace(data, 1)) IN
    IF v.ok /\ SkipSpace(data, v.i) = Len(data) + 1 THEN v ELSE NotScanned

\* Unmarshal fails on data that is not JSON with a *json.SyntaxError, and on
\* JSON that does not fit the target with a *json.UnmarshalTypeError.
JSONSyntaxError == <<"json: syntax error">>
JSONTypeError == <<"json: cannot unmarshal into Go value">>

\* The structure the callers of the model decode into:
\* struct { A int `json:"a"`; B string `json:"b"` }.
Signals(a, b) == [a |-> a, b |-> b]

\* The field a key names, by exact match or by case-insensitive match.
FieldOf(key) ==
    IF key \in {<<"a">>, <<"A">>} THEN "a"
    ELSE IF key \in {<<"b">>, <<"B">>} THEN "b"
    ELSE "none"

\* One member of the object is decoded: null leaves the field alone, a value
\* of the field's kind sets it, any other value is recorded as the error, if
\* it is the first, and decoding goes on.
DecodeMember(st, m) ==
    LET field == FieldOf(m.key)
        wrong == IF st.err = NoError THEN [st EXCEPT !.err = JSONTypeError]
                 ELSE st
    IN IF field = "none" \/ m.value.kind = "null" THEN st
       ELSE IF field = "a"
           THEN IF m.value.kind = "number"
                THEN [st EXCEPT !.signals.a = m.value.n] ELSE wrong
       ELSE IF m.value.kind = "string"
           THEN [st EXCEPT !.signals.b = m.value.str] ELSE wrong

RECURSIVE DecodeMembers(_, _)
DecodeMembers(st, members) ==
    IF members = <<>> THEN st
    ELSE DecodeMembers(DecodeMember(st, Head(members)), Tail(members))

\* json.Unmarshal(data, signals): the error and the structure afterwards.
Unmarshal(data, signals) ==
    LET doc == ScanDocument(data)
        st == [err |-> NoError, signals |-> signals]
    IN IF ~doc.ok THEN [st EXCEPT !.err = JSONSyntaxError]
       ELSE IF doc.v.kind = "null" THEN st
       ELSE IF doc.v.kind = "object" THEN DecodeMembers(st, doc.v.parts)
       ELSE [st EXCEPT !.err = JSONTypeError]

\* ------------------------------------------------------------- ReadSignals

DatastarKey == <<"d", "a", "t", "a", "s", "t", "a", "r">>

\* A request as ReadSignals reads it: r.Method, r.URL.Query() as the pairs of
\* the query in order, the bytes of r.Body, and whether the body is open,
\* closed, or breaks while it is read.
HTTPRequest(method, query, body, bodyState) ==
    [Method |-> method, Query |-> query, Body |-> body,
     BodyState |-> bodyState]

QueryPair(key, value) == [key |-> key, value |-> value]

\* url.Values.Get: the first value of the key, "" when the key is absent.
QueryGet(query, key) ==
    LET I == {i \in 1..Len(query) : query[i].key = key} IN
    IF I = {} THEN <<>>
    ELSE query[CHOOSE i \in I : \A j \in I : i <= j].value

\* http.ErrBodyReadAfterClose, and the error of a body that breaks.
ErrBodyReadAfterClose == <<"http: invalid Read on closed Body">>
ErrUnexpectedEOF == <<"unexpected EOF">>

\* buf.ReadFrom(r.Body): the error, and the bytes read when there is none.
ReadFrom(r) ==
    CASE r.BodyState = "open" -> [err |-> NoError, bytes |-> r.Body]
      [] r.BodyState = "closed" ->
             [err |-> ErrBodyReadAfterClose, bytes |-> <<>>]
      [] r.BodyState = "broken" -> [err |-> ErrUnexpectedEOF, bytes |-> <<>>]

\* What ReadSignals returns: the error and the structure afterwards.
ReadResult(err, signals) == [err |-> err, signals |-> signals]

\* ReadSignals, from json.Unmarshal on.
UnmarshalSignals(dsInput, signals) ==
    LET u == Unmarshal(dsInput, signals) IN
    IF u.err # NoError
    THEN ReadResult(Wrap("failed to unmarshal", u.err), u.signals)
    ELSE ReadResult(NoError, u.signals)

\* A ReadSignals that decodes whatever the query holds.
EmptyQueryDecoded(dsJSON) == FALSE

\* ReadSignals, GET: if dsJSON == "" { return nil }.
EmptyQuery(dsJSON) == dsJSON = <<>>

\* ReadSignals on a GET request.
ReadSignalsFromQuery(r, signals) ==
    LET dsJSON == QueryGet(r.Query, DatastarKey) IN
    IF EmptyQuery(dsJSON) THEN ReadResult(NoError, signals)
    ELSE UnmarshalSignals(dsJSON, signals)

\* ReadSignals on a request of another method.
ReadSignalsFromBody(r, signals) ==
    LET read == ReadFrom(r) IN
    IF read.err # NoError
    THEN IF read.err = ErrBodyReadAfterClose
         THEN ReadResult(
                  Wrap("body already closed, are you sure you created the SSE ***AFTER*** the ReadSignals?",
                       read.err),
                  signals)
         ELSE ReadResult(Wrap("failed to read body", read.err), signals)
    ELSE UnmarshalSignals(read.bytes, signals)

ReadSignals(r, signals) ==
    IF r.Method = "GET" THEN ReadSignalsFromQuery(r, signals)
    ELSE ReadSignalsFromBody(r, signals)

\* One call of ReadSignals: the request and the structure handed in.
ReadCall(r, signals) == [r |-> r, signals |-> signals]

NoSignals == Signals(0, <<>>)
NoRequest == ReadCall(HTTPRequest("none", <<>>, <<>>, "open"), NoSignals)

\* Payloads: nothing, objects that fit the structure, objects that do not,
\* text that is not JSON, and JSON that is not an object.
SignalTexts ==
    {<<>>,
     <<"{", "}">>,
     <<"{", "\"", "a", "\"", ":", "1", "}">>,
     <<"{", "\"", "a", "\"", ":", "1", ",", "\"", "b", "\"", ":", "\"", "x",
       "\"", "}">>,
     <<" ", "{", "\"", "b", "\"", ":", "\"", "x", "\"", "}", " ">>,
     <<"{", "\"", "a", "\"", ":", "\"", "x", "\"", "}">>,
     <<"{", "\"", "a", "\"", ":", "1", ",", "\"", "b", "\"", ":", "2", "}">>,
     <<"{", "\"", "a", "\"", ":">>,
     <<"{", "\"", "a", "\"", ":", "1", ",", "}">>,
     <<"n", "u", "l", "l">>,
     <<"1">>,
     <<"\"", "x", "\"">>,
     <<"[", "1", "]">>,
     <<"{", "\"", "c", "\"", ":", "{", "\"", "d", "\"", ":", "[", "1", ",",
       "t", "r", "u", "e", "]", "}", "}">>,
     <<"{", "\"", "a", "\"", ":", "n", "u", "l", "l", "}">>,
     <<"x">>,
     <<"{", "\"", "A", "\"", ":", "2", "}">>,
     <<"{", "\"", "a", "\"", ":", "0", "1", "}">>,
     <<"{", "\"", "a", "\"", ":", "-", "3", "}">>,
     <<"{", "\"", "a", "\"", ":", "1", "}", "{", "}">>}

\* Values of a query key.
QueryValues ==
    {<<>>,
     <<"{", "}">>,
     <<"{", "\"", "a", "\"", ":", "1", "}">>,
     <<"{", "\"", "a", "\"", ":">>,
     <<"{", "\"", "a", "\"", ":", "\"", "x", "\"", "}">>}

QueryPairs ==
    {QueryPair(k, v) : k \in {DatastarKey, <<"q">>}, v \in QueryValues}

\* The structure as the caller hands it in: zero, or filled.
GivenSignals == {Signals(0, <<>>), Signals(7, <<"k">>)}

\* ReadSignals on every input: GET requests with every query of up to
\* MaxQueryPairs pairs, and requests of other methods with every body, open,
\* closed or breaking.
GetCalls ==
    {ReadCall(HTTPRequest("GET", q, b, "open"), t) :
        q \in SeqsUpTo(QueryPairs, MaxQueryPairs),
        b \in {<<>>, <<"{", "}">>}, t \in GivenSignals}

BodyCalls ==
    {ReadCall(HTTPRequest(m, q, b, st), t) :
        m \in {"POST", "PUT", "DELETE", "get"},
        q \in {<<>>, <<QueryPair(DatastarKey, <<"{", "}">>)>>},
        b \in SignalTexts, st \in {"open", "closed", "broken"},
        t \in GivenSignals}

\* -------------------------------------------------------------------- state

Goroutines == 1..NumGoroutines

\* No goroutine: the holder of an unlocked mutex.
Nobody == 0

\* The calls goroutines make on the shared generator.
StreamCalls ==
    {Call("Send", <<"a">>, << <<"x">> >>, <<>>),
     Call("Send", <<"b">>, <<>>,
          <<WithSSEEventId(<<"7">>),
            WithSSERetryDuration(2 * DefaultSseRetryDuration)>>)}

\* A request and the options NewSSE is called with: r.ProtoMajor, the
\* Accept-Encoding field of r.Header, and opts.
Request(protoMajor, acceptEncoding, opts) ==
    [ProtoMajor |-> protoMajor, AcceptEncoding |-> acceptEncoding,
     opts |-> opts]

\* The response header fields NewSSE sets.
HeaderFields ==
    {"Cache-Control", "Content-Type", "Connection", "Content-Encoding"}

\* A response header with no field set.
NoHeader == [f \in HeaderFields |-> <<>>]

NoCache == <<"n", "o", "-", "c", "a", "c", "h", "e">>
TextEventStream ==
    <<"t", "e", "x", "t", "/",
      "e", "v", "e", "n", "t", "-", "s", "t", "r", "e", "a", "m">>
KeepAlive == <<"k", "e", "e", "p", "-", "a", "l", "i", "v", "e">>

\* The requests that open the stream the goroutines share: HTTP/1.1 without
\* options, and HTTP/2 with the default compression offered "gzip, br".
StreamRequests ==
    {Request(1, <<>>, <<>>),
     Request(2, <<"g", "z", "i", "p", ",", " ", "b", "r">>,
             <<WithCompression(<<>>)>>)}

\* Accept-Encoding headers: none, the two orders of gzip and br (one with a
\* quality value), tokens no compressor has, two of the other compressors, a
\* token with a space before its parameter, and a refusal of gzip.
AcceptEncodings ==
    {<<>>,
     <<"g", "z", "i", "p", ",", " ", "b", "r">>,
     <<"b", "r", ";", "q", "=", "1", ".", "0", ",", " ", "g", "z", "i", "p">>,
     <<"i", "d", "e", "n", "t", "i", "t", "y">>,
     <<"z", "s", "t", "d", ",", "d", "e", "f", "l", "a", "t", "e">>,
     <<" ", "g", "z", "i", "p", " ", ";", "q", "=", "0", ".", "5">>,
     <<"d", "e", "f", "l", "a", "t", "e", ",", " ", "b", "r">>,
     <<"g", "z", "i", "p", ";", "q", "=", "0">>,
     <<"*">>}

CompressionOptions ==
    {WithGzip, WithDeflate, WithBrotli, WithZstd,
     WithClientPriority, WithServerPriority, WithForced}

\* NewSSE on every input: HTTP/1.x and HTTP/2 requests, every header, and
\* either no option or one WithCompression with up to MaxCompressionOpts
\* options.
OpenRequests ==
    {Request(p, a, <<>>) : p \in {1, 2}, a \in AcceptEncodings}
    \cup {Request(p, a, <<WithCompression(c)>>) :
             p \in {1, 2}, a \in AcceptEncodings,
             c \in SeqsUpTo(CompressionOptions, MaxCompressionOpts)}

VARIABLES
    ctxErr,     \* sse.ctx.Err(): NoError while the context is live
    mu,         \* sse.mu: the goroutine that holds it, or Nobody
    wrapped,    \* whether sse.w is a compressing writer (has Flush() error)
    sink,       \* the bytes sse.w has accepted, in order
    nflush,     \* the Flush calls Send made: on sse.w (w) and on sse.rc (rc)
    pc,         \* per goroutine: where it is in its call
    call,       \* per goroutine: the call it is in, or made last
    args,       \* per goroutine: the arguments that call handed to Send
    buf,        \* per goroutine: the scratch buffer of its Send
    wn,         \* per goroutine: the bytes of buf the sink has taken
    ret,        \* per goroutine: what its last call returned
    ncalls,     \* the calls made so far
    faults,     \* the failures the sink and the flushes reported so far
    hist,       \* history, per goroutine: the Send arguments of its calls
    log,        \* history: one entry per buffer handed to the sink, in order
    atCancel,   \* history: the sink at a cancellation that found no Send running
    stages,     \* history, per goroutine: the stages its Send has entered
    out,        \* the bytes of the sink that have reached the response writer
                \* (w) and that a transport flush has pushed to the client (rc)
    locks,      \* history: the goroutines in the order they took sse.mu
    req,        \* the request and the options NewSSE is called with
    ssePc,      \* where NewSSE is: "call", "options", "flush", then
                \* "returned" or "panicked"
    todo,       \* NewSSE: the options not applied yet
    header,     \* w.Header(): the response header fields, empty when not set
    encoding,   \* sse.encoding
    committed,  \* the header as the client got it, once it was flushed
    layers,     \* the compressing writers between sse.w and the response
                \* writer, by encoding, in the order they were put on
    encCall,    \* encoder runs: the call whose frame is encoded
    encSend,    \* encoder runs: the arguments that reached Send
    encFrame,   \* encoder runs: the bytes of the frame
    encPc,      \* encoder runs: "ready" before the call, "done" after it
    readCall,   \* ReadSignals runs: the request r and the signals given
    target,     \* ReadSignals runs: the structure the signals pointer points to
    readRet,    \* ReadSignals runs: the error returned
    readPc,     \* ReadSignals runs: "ready" before the call, "done" after it
    modeArg,    \* ElementPatchModeFromString runs: the string s
    modeRet,    \* ElementPatchModeFromString runs: the mode and the error
    modePc      \* ElementPatchModeFromString runs: "ready", then "done"

streamVars ==
    <<ctxErr, mu, wrapped, sink, nflush, pc, call, args, buf, wn, ret,
      ncalls, faults, hist, log, atCancel, stages, out, locks>>

openVars == <<req, ssePc, todo, header, encoding, committed, layers>>

encVars == <<encCall, encSend, encFrame, encPc>>

readVars == <<readCall, target, readRet, readPc>>

modeVars == <<modeArg, modeRet, modePc>>

vars ==
    <<ctxErr, mu, wrapped, sink, nflush, pc, call, args, buf, wn, ret,
      ncalls, faults, hist, log, atCancel, stages, out, locks,
      req, ssePc, todo, header, encoding, committed, layers,
      encCall, encSend, encFrame, encPc,
      readCall, target, readRet, readPc,
      modeArg, modeRet, modePc>>

\* What a goroutine's last call returned: the operation, the error, and for
\* IsClosed the answer.
Returned(op, err, closed) == [op |-> op, err |-> err, closed |-> closed]

\* No cancellation yet, or one that found a Send running.
NotQuiet == [quiet |-> FALSE, sink |-> <<>>]

\* The generator before NewSSE has applied an option: the response writer is
\* the sink, and no call has been made.
StreamInit ==
    /\ ctxErr = NoError
    /\ mu = Nobody
    /\ wrapped = FALSE
    /\ sink = <<>>
    /\ nflush = [w |-> 0, rc |-> 0]
    /\ pc = [g \in Goroutines |-> "idle"]
    /\ call = [g \in Goroutines |-> NoCall]
    /\ args = [g \in Goroutines |-> NoSend]
    /\ buf = [g \in Goroutines |-> <<>>]
    /\ wn = [g \in Goroutines |-> 0]
    /\ ret = [g \in Goroutines |-> Returned("none", NoError, FALSE)]
    /\ ncalls = 0
    /\ faults = 0
    /\ hist = [g \in Goroutines |-> <<>>]
    /\ log = <<>>
    /\ atCancel = NotQuiet
    /\ stages = [g \in Goroutines |-> <<>>]
    /\ out = [w |-> 0, rc |-> 0]
    /\ locks = <<>>

\* No encoder run.
EncIdle ==
    /\ encCall = NoCall
    /\ encSend = NoSend
    /\ encFrame = <<>>
    /\ encPc = "off"

\* No ReadSignals run.
ReadIdle ==
    /\ readCall = NoRequest
    /\ target = NoSignals
    /\ readRet = NoError
    /\ readPc = "off"

\* No ElementPatchModeFromString run.
ModeIdle ==
    /\ modeArg = <<>>
    /\ modeRet = ModeResult(<<>>, NoError)
    /\ modePc = "off"

\* NewSSE is called with one of the requests.
OpenInit(requests) ==
    /\ req \in requests
    /\ ssePc = "call"
    /\ todo = <<>>
    /\ header = NoHeader
    /\ encoding = <<>>
    /\ committed = <<>>
    /\ layers = <<>>

Init ==
    StreamInit /\ OpenInit(StreamRequests) /\ EncIdle /\ ReadIdle /\ ModeIdle

\* ------------------------------------------------------------------- NewSSE

\* A NewSSE that asks every client to keep the connection alive.
ResponseHeaderKeepAliveAlways(protoMajor) ==
    [NoHeader EXCEPT !["Cache-Control"] = NoCache,
                     !["Content-Type"] = TextEventStream,
                     !["Connection"] = KeepAlive]

\* The header fields NewSSE sets before it builds the generator.
ResponseHeader(protoMajor) ==
    [NoHeader EXCEPT !["Cache-Control"] = NoCache,
                     !["Content-Type"] = TextEventStream,
                     !["Connection"] =
                         IF protoMajor = 1 THEN KeepAlive ELSE <<>>]

\* NewSSE up to the generator: the header fields are set, the generator has
\* the response writer as its sink, and every option is still to apply.
NewSSEStart ==
    /\ ssePc = "call"
    /\ header' = ResponseHeader(req.ProtoMajor)
    /\ todo' = req.opts
    /\ ssePc' = "options"
    /\ UNCHANGED <<req, encoding, committed, layers>>
    /\ UNCHANGED streamVars
    /\ UNCHANGED encVars
    /\ UNCHANGED readVars
    /\ UNCHANGED modeVars

\* "apply options": the next option, a WithCompression, is applied. When it
\* selects a compressor, the compressing writer replaces the sink.
NewSSEOption ==
    /\ ssePc = "options"
    /\ todo # <<>>
    /\ LET selected == SelectedEncoding(req.AcceptEncoding, Head(todo).l) IN
       /\ wrapped' = (wrapped \/ selected # <<>>)
       /\ encoding' = IF selected # <<>> THEN selected ELSE encoding
       /\ layers' = IF selected # <<>> THEN Append(layers, selected)
                    ELSE layers
    /\ todo' = Tail(todo)
    /\ UNCHANGED <<req, ssePc, header, committed>>
    /\ UNCHANGED <<ctxErr, mu, sink, nflush, pc, call, args, buf, wn, ret,
                   ncalls, faults, hist, log, atCancel, stages, out, locks>>
    /\ UNCHANGED encVars
    /\ UNCHANGED readVars
    /\ UNCHANGED modeVars

\* A header that is sent whatever the generator's encoding is.
WithContentEncodingNever(h, enc) == h

\* "set compression encoding".
WithContentEncoding(h, enc) ==
    IF enc # <<>> THEN [h EXCEPT !["Content-Encoding"] = enc] ELSE h

NewSSEEncoding ==
    /\ ssePc = "options"
    /\ todo = <<>>
    /\ header' = WithContentEncoding(header, encoding)
    /\ ssePc' = "flush"
    /\ UNCHANGED <<req, todo, encoding, committed, layers>>
    /\ UNCHANGED streamVars
    /\ UNCHANGED encVars
    /\ UNCHANGED readVars
    /\ UNCHANGED modeVars

\* A NewSSE that returns the generator whatever the flush reports.
AfterHeaderFlushReturns(ok) == "returned"

\* "flush headers": NewSSE returns the generator when rc.Flush reports no
\* error and panics when it reports one.
AfterHeaderFlush(ok) == IF ok THEN "returned" ELSE "panicked"

\* rc.Flush sends the header to the client, or fails and sends nothing.
NewSSEFlush ==
    /\ ssePc = "flush"
    /\ \E ok \in BOOLEAN :
          /\ committed' = IF ok THEN <<header>> ELSE committed
          /\ ssePc' = AfterHeaderFlush(ok)
    /\ UNCHANGED <<req, todo, header, encoding, layers>>
    /\ UNCHANGED streamVars
    /\ UNCHANGED encVars
    /\ UNCHANGED readVars
    /\ UNCHANGED modeVars

\* -------------------------------------------------------------- the context

\* The request's context is cancelled or its deadline passes.
Cancel ==
    /\ ctxErr = NoError
    /\ ctxErr' \in ContextErrors
    /\ atCancel' = IF \A g \in Goroutines : pc[g] = "idle"
                   THEN [quiet |-> TRUE, sink |-> sink]
                   ELSE NotQuiet
    /\ UNCHANGED <<mu, wrapped, sink, nflush, pc, call, args, buf, wn, ret,
                   ncalls, faults, hist, log, stages, out, locks>>
    /\ UNCHANGED encVars
    /\ UNCHANGED readVars
    /\ UNCHANGED modeVars
    /\ UNCHANGED openVars

\* ----------------------------------------------------------------- IsClosed

\* An IsClosed that never reports the cancellation.
IsClosedNever == FALSE

\* IsClosed: sse.ctx.Err() != nil.
IsClosedResult == ctxErr # NoError

\* A goroutine calls IsClosed; the call neither waits nor writes.
IsClosed(g) ==
    /\ ssePc = "returned"
    /\ pc[g] = "idle"
    /\ ncalls < MaxCalls
    /\ ncalls' = ncalls + 1
    /\ call' = [call EXCEPT ![g] = Call("IsClosed", <<>>, <<>>, <<>>)]
    /\ ret' = [ret EXCEPT ![g] = Returned("IsClosed", NoError, IsClosedResult)]
    /\ UNCHANGED <<ctxErr, mu, wrapped, sink, nflush, pc, args, buf, wn,
                   faults, hist, log, atCancel, stages, out, locks>>
    /\ UNCHANGED encVars
    /\ UNCHANGED readVars
    /\ UNCHANGED modeVars
    /\ UNCHANGED openVars

\* --------------------------------------------------------------------- Send

\* A Send without the check of the context.
SendCancelledNever == FALSE

\* Send, "Check if context is cancelled before attempting to send".
SendCancelled == ctxErr # NoError

\* A Send that does not wait for the mutex.
LockNeverWaits == TRUE

\* sync.Mutex.Lock returns once no goroutine holds the mutex.
LockFree == mu = Nobody

\* The end of the line of b that starts after byte n: its newline, or the end
\* of b.
LineEnd(b, n) ==
    CHOOSE j \in (n + 1)..Len(b) :
        /\ j = Len(b) \/ b[j] = "\n"
        /\ \A k \in (n + 1)..(j - 1) : b[k] # "\n"

\* A sink that starts afresh with every buffer it is handed.
SinkAcceptAfresh(s, b, n) ==
    IF n = 0 THEN SubSeq(b, 1, LineEnd(b, 0))
    ELSE s \o SubSeq(b, n + 1, LineEnd(b, n))

\* The sink after it has taken the line of the buffer that starts after byte
\* n: it appends.
SinkAccept(s, b, n) == s \o SubSeq(b, n + 1, LineEnd(b, n))

\* A Send that unlocks the mutex only when it succeeds.
SendReturnLockedOnError(g, err) ==
    /\ mu' = IF err = NoError THEN Nobody ELSE mu
    /\ pc' = [pc EXCEPT ![g] = "idle"]
    /\ buf' = [buf EXCEPT ![g] = <<>>]
    /\ wn' = [wn EXCEPT ![g] = 0]
    /\ ret' = [ret EXCEPT ![g] = Returned(call[g].op, CallResult(call[g], err),
                                          FALSE)]

\* The deferred calls of Send: the buffer goes back to the pool, the mutex is
\* unlocked, and the call returns err to its caller.
SendReturn(g, err) ==
    /\ mu' = Nobody
    /\ pc' = [pc EXCEPT ![g] = "idle"]
    /\ buf' = [buf EXCEPT ![g] = <<>>]
    /\ wn' = [wn EXCEPT ![g] = 0]
    /\ ret' = [ret EXCEPT ![g] = Returned(call[g].op, CallResult(call[g], err),
                                          FALSE)]

\* A goroutine makes a call that sends an event: the wrapper builds the
\* arguments, and Send checks the context before anything else.
SendCall(g, c) ==
    /\ ssePc = "returned"
    /\ pc[g] = "idle"
    /\ ncalls < MaxCalls
    /\ ncalls' = ncalls + 1
    /\ call' = [call EXCEPT ![g] = c]
    /\ args' = [args EXCEPT ![g] = ToSend(c)]
    /\ hist' = [hist EXCEPT ![g] = Append(@, ToSend(c))]
    /\ IF SendCancelled
       THEN /\ ret' = [ret EXCEPT ![g] =
                          Returned(c.op,
                                   CallResult(c, Wrap("context cancelled",
                                                      ctxErr)),
                                   FALSE)]
            /\ pc' = pc
       ELSE /\ pc' = [pc EXCEPT ![g] = "lock"]
            /\ ret' = ret
    /\ stages' = [stages EXCEPT ![g] = <<>>]
    /\ UNCHANGED <<ctxErr, mu, wrapped, sink, nflush, buf, wn, faults, log,
                   atCancel, out, locks>>
    /\ UNCHANGED encVars
    /\ UNCHANGED readVars
    /\ UNCHANGED modeVars
    /\ UNCHANGED openVars

\* sse.mu.Lock().
SendLock(g) ==
    /\ pc[g] = "lock"
    /\ LockFree
    /\ mu' = g
    /\ pc' = [pc EXCEPT ![g] = "encode"]
    /\ locks' = Append(locks, g)
    /\ UNCHANGED <<ctxErr, wrapped, sink, nflush, call, args, buf, wn, ret,
                   ncalls, faults, hist, log, atCancel, stages, out>>
    /\ UNCHANGED encVars
    /\ UNCHANGED readVars
    /\ UNCHANGED modeVars
    /\ UNCHANGED openVars

\* The event is created and encoded into a buffer from the pool.
SendEncode(g) ==
    /\ pc[g] = "encode"
    /\ buf' = [buf EXCEPT ![g] = EncodeEvent(EventOf(args[g], log))]
    /\ wn' = [wn EXCEPT ![g] = 0]
    /\ log' = Append(log, [g |-> g, args |-> args[g],
                           evt |-> EventOf(args[g], log),
                           frame |-> EncodeEvent(EventOf(args[g], log)),
                           n |-> 0])
    /\ pc' = [pc EXCEPT ![g] = "write"]
    /\ stages' = [stages EXCEPT ![g] = Append(@, "encode")]
    /\ UNCHANGED <<ctxErr, mu, wrapped, sink, nflush, call, args, ret,
                   ncalls, faults, hist, atCancel, out, locks>>
    /\ UNCHANGED encVars
    /\ UNCHANGED readVars
    /\ UNCHANGED modeVars
    /\ UNCHANGED openVars

\* The stages of a Send once its write to the sink is under way: the write
\* is entered when the sink is handed the buffer, and once only.
EnterWrite(entered, n) == IF n = 0 THEN Append(entered, "write") ELSE entered

\* A Send that never flushes the writer.
AfterWriteToTransport(compressing) == "flushRc"

\* "flush the write if its a compressing writer": the stage that follows the
\* write, by whether sse.w has a Flush() error method.
AfterWrite(compressing) == IF compressing THEN "flushW" ELSE "flushRc"

\* The last entry of the log that belongs to g.
LastEntryOf(g) ==
    CHOOSE i \in 1..Len(log) :
        log[i].g = g /\ \A j \in (i + 1)..Len(log) : log[j].g # g

\* buf.WriteTo(sse.w), while it runs: the sink takes the buffer a line at a
\* time. After the last line the write returns, and the flushes follow.
SendWrite(g) ==
    /\ pc[g] = "write"
    /\ wn[g] < Len(buf[g])
    /\ sink' = SinkAccept(sink, buf[g], wn[g])
    /\ wn' = [wn EXCEPT ![g] = LineEnd(buf[g], @)]
    /\ log' = [log EXCEPT ![LastEntryOf(g)].n = LineEnd(buf[g], @)]
    /\ pc' = [pc EXCEPT ![g] =
                 IF LineEnd(buf[g], wn[g]) < Len(buf[g]) THEN "write"
                 ELSE AfterWrite(wrapped)]
    /\ stages' = [stages EXCEPT ![g] = EnterWrite(@, wn[g])]
    /\ out' = IF wrapped THEN out ELSE [out EXCEPT !.w = Len(sink')]
    /\ UNCHANGED <<ctxErr, mu, wrapped, nflush, call, args, buf, ret, ncalls,
                   faults, hist, atCancel, locks>>
    /\ UNCHANGED encVars
    /\ UNCHANGED readVars
    /\ UNCHANGED modeVars
    /\ UNCHANGED openVars

\* buf.WriteTo(sse.w) fails: the sink keeps what it had accepted.
SendWriteFail(g) ==
    /\ pc[g] = "write"
    /\ faults < MaxFaults
    /\ faults' = faults + 1
    /\ SendReturn(g, Wrap("failed to write to response writer", IOError))
    /\ stages' = [stages EXCEPT ![g] = EnterWrite(@, wn[g])]
    /\ UNCHANGED <<ctxErr, wrapped, sink, nflush, call, args, ncalls, hist,
                   log, atCancel, out, locks>>
    /\ UNCHANGED encVars
    /\ UNCHANGED readVars
    /\ UNCHANGED modeVars
    /\ UNCHANGED openVars

\* "flush the write if its a compressing writer": f.Flush(), which may fail.
SendFlushWriter(g) ==
    /\ pc[g] = "flushW"
    /\ nflush' = [nflush EXCEPT !.w = @ + 1]
    /\ stages' = [stages EXCEPT ![g] = Append(@, "flushW")]
    /\ \/ /\ pc' = [pc EXCEPT ![g] = "flushRc"]
          /\ out' = [out EXCEPT !.w = Len(sink)]
          /\ UNCHANGED <<mu, buf, wn, ret, faults>>
       \/ /\ faults < MaxFaults
          /\ faults' = faults + 1
          /\ out' = out
          /\ SendReturn(g, Wrap("failed to flush compressing writer", IOError))
    /\ UNCHANGED <<ctxErr, wrapped, sink, call, args, ncalls, hist, log,
                   atCancel, locks>>
    /\ UNCHANGED encVars
    /\ UNCHANGED readVars
    /\ UNCHANGED modeVars
    /\ UNCHANGED openVars

\* sse.rc.Flush(), which may fail, and the return of Send.
SendFlush(g) ==
    /\ pc[g] = "flushRc"
    /\ nflush' = [nflush EXCEPT !.rc = @ + 1]
    /\ stages' = [stages EXCEPT ![g] = Append(@, "flushRc")]
    /\ \/ /\ SendReturn(g, NoError)
          /\ out' = [out EXCEPT !.rc = out.w]
          /\ UNCHANGED faults
       \/ /\ faults < MaxFaults
          /\ faults' = faults + 1
          /\ out' = out
          /\ SendReturn(g, Wrap("failed to flush data", IOError))
    /\ UNCHANGED <<ctxErr, wrapped, sink, call, args, ncalls, hist, log,
                   atCancel, locks>>
    /\ UNCHANGED encVars
    /\ UNCHANGED readVars
    /\ UNCHANGED modeVars
    /\ UNCHANGED openVars

Next ==
    \/ NewSSEStart
    \/ NewSSEOption
    \/ NewSSEEncoding
    \/ NewSSEFlush
    \/ Cancel
    \/ \E g \in Goroutines : IsClosed(g)
    \/ \E g \in Goroutines : \E c \in StreamCalls : SendCall(g, c)
    \/ \E g \in Goroutines : SendLock(g)
    \/ \E g \in Goroutines : SendEncode(g)
    \/ \E g \in Goroutines : SendWrite(g)
    \/ \E g \in Goroutines : SendWriteFail(g)
    \/ \E g \in Goroutines : SendFlushWriter(g)
    \/ \E g \in Goroutines : SendFlush(g)

Spec == Init /\ [][Next]_vars

\* The scheduling Send relies on: a goroutine that can run its next step in
\* Send runs it, the write to the sink and the flushes return, with or
\* without an error, and a goroutine that waits for the mutex gets it when
\* it is free again and again (a sync.Mutex hands over to a starving waiter).
SendFairness ==
    \A g \in Goroutines :
        /\ SF_vars(SendLock(g))
        /\ WF_vars(SendEncode(g))
        /\ WF_vars(SendWrite(g) \/ SendWriteFail(g))
        /\ WF_vars(SendFlushWriter(g))
        /\ WF_vars(SendFlush(g))

SpecFair == Init /\ [][Next]_vars /\ SendFairness

\* ---------------------------------------------------- NewSSE on every input

OpenNext ==
    \/ NewSSEStart
    \/ NewSSEOption
    \/ NewSSEEncoding
    \/ NewSSEFlush

InitOpen ==
    StreamInit /\ OpenInit(OpenRequests) /\ EncIdle /\ ReadIdle /\ ModeIdle

SpecOpen == InitOpen /\ [][OpenNext]_vars

\* NewSSE with up to MaxSSEOpts options, each a WithCompression with at most
\* one option of its own.
ManyOptionRequests ==
    {Request(p, a, o) :
        p \in {1, 2}, a \in AcceptEncodings,
        o \in SeqsUpTo({WithCompression(c) :
                           c \in SeqsUpTo(CompressionOptions, 1)},
                       MaxSSEOpts)}

InitOpenMany ==
    StreamInit /\ OpenInit(ManyOptionRequests) /\ EncIdle /\ ReadIdle
    /\ ModeIdle

SpecOpenMany == InitOpenMany /\ [][OpenNext]_vars

\* ------------------------------------------------- the encoder on every input

\* No stream: the encoder runs leave the generator as NewSSE returned it,
\* for an HTTP/1.1 request and without options.
StreamIdle ==
    /\ StreamInit
    /\ req = Request(1, <<>>, <<>>)
    /\ ssePc = "returned"
    /\ todo = <<>>
    /\ header = ResponseHeader(1)
    /\ encoding = <<>>
    /\ committed = <<ResponseHeader(1)>>
    /\ layers = <<>>

EncInit ==
    /\ StreamIdle
    /\ ReadIdle
    /\ ModeIdle
    /\ \/ encCall \in SendCalls
       \/ encCall \in PatchElementsCalls
       \/ encCall \in PatchSignalsCalls
       \/ encCall \in ExecuteScriptCalls
    /\ encSend = NoSend
    /\ encFrame = <<>>
    /\ encPc = "ready"

\* Each action runs one call to its end on a live, accepting stream: the
\* frame is what Send encodes for the arguments the call hands it.
EncSend ==
    /\ encPc = "ready"
    /\ encCall.op = "Send"
    /\ encSend' = SendArgs(encCall.arg, encCall.dataLines, encCall.opts)
    /\ encFrame' = SendFrame(encSend')
    /\ encPc' = "done"
    /\ UNCHANGED encCall
    /\ UNCHANGED streamVars
    /\ UNCHANGED openVars
    /\ UNCHANGED readVars
    /\ UNCHANGED modeVars

EncPatchElements ==
    /\ encPc = "ready"
    /\ encCall.op = "PatchElements"
    /\ encSend' = PatchElements(encCall.arg, encCall.opts)
    /\ encFrame' = SendFrame(encSend')
    /\ encPc' = "done"
    /\ UNCHANGED encCall
    /\ UNCHANGED streamVars
    /\ UNCHANGED openVars
    /\ UNCHANGED readVars
    /\ UNCHANGED modeVars

EncPatchSignals ==
    /\ encPc = "ready"
    /\ encCall.op = "PatchSignals"
    /\ encSend' = PatchSignals(encCall.arg, encCall.opts)
    /\ encFrame' = SendFrame(encSend')
    /\ encPc' = "done"
    /\ UNCHANGED encCall
    /\ UNCHANGED streamVars
    /\ UNCHANGED openVars
    /\ UNCHANGED readVars
    /\ UNCHANGED modeVars

EncExecuteScript ==
    /\ encPc = "ready"
    /\ encCall.op = "ExecuteScript"
    /\ encSend' = ExecuteScript(encCall.arg, encCall.opts)
    /\ encFrame' = SendFrame(encSend')
    /\ encPc' = "done"
    /\ UNCHANGED encCall
    /\ UNCHANGED streamVars
    /\ UNCHANGED openVars
    /\ UNCHANGED readVars
    /\ UNCHANGED modeVars

EncNext ==
    \/ EncSend
    \/ EncPatchElements
    \/ EncPatchSignals
    \/ EncExecuteScript

SpecEnc == EncInit /\ [][EncNext]_vars

\* --------------------------------------------- ReadSignals on every input

ReadInit ==
    /\ StreamIdle
    /\ EncIdle
    /\ ModeIdle
    /\ \/ readCall \in GetCalls
       \/ readCall \in BodyCalls
    /\ target = readCall.signals
    /\ readRet = NoError
    /\ readPc = "ready"

\* ReadSignals on a GET request, from the call to the return.
ReadSignalsGet ==
    /\ readPc = "ready"
    /\ readCall.r.Method = "GET"
    /\ \E result \in {ReadSignals(readCall.r, target)} :
           /\ readRet' = result.err
           /\ target' = result.signals
    /\ readPc' = "done"
    /\ UNCHANGED readCall
    /\ UNCHANGED streamVars
    /\ UNCHANGED openVars
    /\ UNCHANGED encVars
    /\ UNCHANGED modeVars

\* ReadSignals on a request of another method, from the call to the return.
ReadSignalsOther ==
    /\ readPc = "ready"
    /\ readCall.r.Method # "GET"
    /\ \E result \in {ReadSignals(readCall.r, target)} :
           /\ readRet' = result.err
           /\ target' = result.signals
    /\ readPc' = "done"
    /\ UNCHANGED readCall
    /\ UNCHANGED streamVars
    /\ UNCHANGED openVars
    /\ UNCHANGED encVars
    /\ UNCHANGED modeVars

ReadNext ==
    \/ ReadSignalsGet
    \/ ReadSignalsOther

SpecRead == ReadInit /\ [][ReadNext]_vars

\* ------------------------------ ElementPatchModeFromString on every input

\* Strings no mode has: the test's fake type, a mode in capitals, and a mode
\* of an earlier protocol version.
OtherModeStrings ==
    {<<>>, <<"f", "a", "k", "e", "T", "y", "p", "e">>,
     <<"O", "u", "t", "e", "r">>, <<"O", "U", "T", "E", "R">>,
     <<"m", "o", "r", "p", "h">>}

\* The bytes put before and after a string.
PadBytes == {" ", "s", "\n"}

\* The modes and the other strings, their prefixes, and each of them with up
\* to MaxPad bytes before and after it.
ModeStrings ==
    LET words == {ValidElementPatchModes[i] :
                     i \in 1..Len(ValidElementPatchModes)}
                 \cup OtherModeStrings
    IN UNION {{SubSeq(w, 1, k) : k \in 0..Len(w)} : w \in words}
       \cup {pre \o w \o post :
                w \in words,
                pre \in SeqsUpTo(PadBytes, MaxPad),
                post \in SeqsUpTo(PadBytes, MaxPad)}

ModeInit ==
    /\ StreamIdle
    /\ EncIdle
    /\ ReadIdle
    /\ modeArg \in ModeStrings
    /\ modeRet = ModeResult(<<>>, NoError)
    /\ modePc = "ready"

\* ElementPatchModeFromString, from the call to the return.
ModeFromString ==
    /\ modePc = "ready"
    /\ modeRet' = ElementPatchModeFromString(modeArg)
    /\ modePc' = "done"
    /\ UNCHANGED modeArg
    /\ UNCHANGED streamVars
    /\ UNCHANGED openVars
    /\ UNCHANGED encVars
    /\ UNCHANGED readVars

ModeNext == ModeFromString

SpecMode == ModeInit /\ [][ModeNext]_vars

\* ------------------------------------ the encoder on values of any content

\* ElementPatchMode is a string type: a caller can convert any string to it.
AnyModes ==
    {ElementPatchModeOuter, ElementPatchModeRemove, ElementPatchModeAppend,
     <<"b", "o", "g", "u", "s">>, <<>>}

AnySelectors == {<<>>, <<"#", "x">>, <<"#", "a", "\n", "#", "b">>}

AnyEventIds == {<<"7">>, <<"7", "\n", "8">>}

AnyPatchElementOptions ==
    {WithSelector(sel) : sel \in AnySelectors}
    \cup {WithMode(m) : m \in AnyModes}
    \cup {WithPatchElementsEventID(id) : id \in AnyEventIds}
    \cup {WithUseViewTransitions(TRUE)}

AnyPatchElementsCalls ==
    {Call("PatchElements", f, <<>>, o) :
        f \in Fragments, o \in SeqsUpTo(AnyPatchElementOptions, MaxAnyOpts)}

RemoveElementCalls ==
    {Call("RemoveElement", sel, <<>>, o) :
        sel \in AnySelectors,
        o \in SeqsUpTo(AnyPatchElementOptions, MaxAnyOpts)}

AnyPatchSignalsCalls ==
    {Call("PatchSignals", p, <<>>, o) :
        p \in Payloads,
        o \in SeqsUpTo({WithPatchSignalsEventID(id) : id \in AnyEventIds}
                           \cup {WithOnlyIfMissing(TRUE)}, MaxAnyOpts)}

AnyExecuteScriptCalls ==
    {Call("ExecuteScript", sc, <<>>, o) :
        sc \in Scripts,
        o \in SeqsUpTo({WithExecuteScriptEventID(id) : id \in AnyEventIds}
                           \cup {WithExecuteScriptAttributes(<<AttrDefer>>)},
                       MaxAnyOpts)}

AnySendCalls ==
    {Call("Send", EventTypePatchElements, dl, o) :
        dl \in SeqsUpTo(DataLineValues, 1),
        o \in SeqsUpTo({WithSSEEventId(id) : id \in AnyEventIds}, 1)}

EncAnyInit ==
    /\ StreamIdle
    /\ ReadIdle
    /\ ModeIdle
    /\ \/ encCall \in AnySendCalls
       \/ encCall \in AnyPatchElementsCalls
       \/ encCall \in RemoveElementCalls
       \/ encCall \in AnyPatchSignalsCalls
       \/ encCall \in AnyExecuteScriptCalls
    /\ encSend = NoSend
    /\ encFrame = <<>>
    /\ encPc = "ready"

EncRemoveElement ==
    /\ encPc = "ready"
    /\ encCall.op = "RemoveElement"
    /\ encSend' = RemoveElement(encCall.arg, encCall.opts)
    /\ encFrame' = SendFrame(encSend')
    /\ encPc' = "done"
    /\ UNCHANGED encCall
    /\ UNCHANGED streamVars
    /\ UNCHANGED openVars
    /\ UNCHANGED readVars
    /\ UNCHANGED modeVars

EncAnyNext ==
    \/ EncSend
    \/ EncPatchElements
    \/ EncRemoveElement
    \/ EncPatchSignals
    \/ EncExecuteScript

SpecEncAny == EncAnyInit /\ [][EncAnyNext]_vars

\* ============================================================== properties

\* ------------------------------------------------- reading a frame back

\* The position of the first newline byte of s at or after i, one past the
\* end of s when there is none.
NextNewline(s, i) ==
    CHOOSE j \in i..(Len(s) + 1) :
        /\ j = Len(s) + 1 \/ s[j] = "\n"
        /\ \A k \in i..(j - 1) : s[k] # "\n"

\* The stretches of s between its newline bytes, from byte i on.
RECURSIVE ReadPieces(_, _)
ReadPieces(s, i) ==
    LET j == NextNewline(s, i) IN
    <<SubSeq(s, i, j - 1)>>
    \o (IF j > Len(s) THEN <<>> ELSE ReadPieces(s, j + 1))

\* The stretches of s between its newline bytes: one more than it has
\* newlines.
Pieces(s) == ReadPieces(s, 1)

\* The lines of s, each ended by its newline, as a client reads them.
WireLines(s) ==
    LET p == Pieces(s) IN SubSeq(p, 1, Len(p) - 1)

\* Nothing follows the last newline of s.
EndsWithNewline(s) == s # <<>> /\ s[Len(s)] = "\n"

\* The first blank line of a list of lines, or one past its end.
FirstBlank(lines) ==
    IF \E i \in 1..Len(lines) : lines[i] = <<>>
    THEN CHOOSE i \in 1..Len(lines) :
             lines[i] = <<>> /\ \A j \in 1..(i - 1) : lines[j] # <<>>
    ELSE Len(lines) + 1

\* The field lines of a frame: its lines before the first blank one.
BodyLines(frame) ==
    LET w == WireLines(frame) IN SubSeq(w, 1, FirstBlank(w) - 1)

\* The lines of a frame from its first blank line on.
EndLines(frame) ==
    LET w == WireLines(frame) IN SubSeq(w, FirstBlank(w), Len(w))

HasPrefix(s, prefix) ==
    Len(s) >= Len(prefix) /\ SubSeq(s, 1, Len(prefix)) = prefix

TrimPrefix(s, prefix) == SubSeq(s, Len(prefix) + 1, Len(s))

\* The lines of a list that carry a prefix, in order, without the prefix.
RECURSIVE FieldValues(_, _)
FieldValues(lines, prefix) ==
    IF lines = <<>> THEN <<>>
    ELSE (IF HasPrefix(Head(lines), prefix)
          THEN <<TrimPrefix(Head(lines), prefix)>> ELSE <<>>)
         \o FieldValues(Tail(lines), prefix)

\* The values of the data lines of a frame, in order.
DataValues(frame) == FieldValues(BodyLines(frame), dataLinePrefix)

\* The values of the retry lines of a frame, in order.
RetryValues(frame) == FieldValues(BodyLines(frame), retryLinePrefix)

\* The last option of a list that bears one of the names, or dflt.
LastOpt(opts, names, dflt) ==
    LET I == {i \in 1..Len(opts) : opts[i].name \in names} IN
    IF I = {} THEN dflt
    ELSE opts[CHOOSE i \in I : \A j \in I : j <= i]

\* The number a string of decimal digits denotes.
DigitValue(c) ==
    CASE c = "0" -> 0 [] c = "1" -> 1 [] c = "2" -> 2 [] c = "3" -> 3
      [] c = "4" -> 4 [] c = "5" -> 5 [] c = "6" -> 6 [] c = "7" -> 7
      [] c = "8" -> 8 [] c = "9" -> 9 [] OTHER -> 0 - 1

RECURSIVE DecimalValue(_)
DecimalValue(s) ==
    IF s = <<>> THEN 0
    ELSE 10 * DecimalValue(SubSeq(s, 1, Len(s) - 1)) + DigitValue(s[Len(s)])

IsDecimal(s) ==
    s # <<>> /\ \A i \in 1..Len(s) : DigitValue(s[i]) >= 0

\* ----------------------------------------------------------------- C1

\* The goroutine is between acquiring the mutex of Send and returning.
InsideSend(g) == pc[g] \in {"encode", "write", "flushW", "flushRc"}

\* What the sink took of the buffers handed to it, buffer after buffer.
LoggedBytes ==
    Flatten([i \in 1..Len(log) |-> SubSeq(log[i].frame, 1, log[i].n)])

\* C1: at most one goroutine at a time is between acquiring the lock of Send
\* and returning from it, and the sink holds the bytes of the frames one frame
\* after the other, in the order in which the Sends wrote: no byte of a frame
\* lies between the bytes of another.
C1_SendSerialized ==
    /\ \A g, h \in Goroutines : InsideSend(g) /\ InsideSend(h) => g = h
    /\ sink = LoggedBytes

\* A goroutine has written the first line of its frame and not the last,
\* while another goroutine, called with a different frame, waits for the lock.
C1_Witness ==
    \E g, h \in Goroutines :
        /\ g # h
        /\ pc[g] = "write" /\ wn[g] > 0
        /\ pc[h] = "lock"
        /\ SendFrame(args[h]) # buf[g]
        /\ sink = SubSeq(buf[g], 1, wn[g])

\* ----------------------------------------------------------------- C2

\* The frames of the Send calls a goroutine has made, one after the other.
FramesOf(g) ==
    Flatten([i \in 1..Len(hist[g]) |-> SendFrame(hist[g][i])])

\* The only goroutine that has sent on the generator, if g is.
SingleCaller(g) == \A h \in Goroutines \ {g} : hist[h] = <<>>

\* C2: when a single caller makes its Send calls one after another on a live
\* context and a sink that accepts everything, then after its k-th call has
\* returned the sink holds the frames of the calls 1..k, in that order.
C2_SingleCallerOrder ==
    \A g \in Goroutines :
        (/\ SingleCaller(g)
         /\ ctxErr = NoError
         /\ faults = 0
         /\ pc[g] = "idle")
        => sink = FramesOf(g)

\* A single caller has made as many calls as the bound allows, not all with
\* the same frame, and all of them have returned without error.
C2_Witness ==
    \E g \in Goroutines :
        /\ SingleCaller(g)
        /\ ctxErr = NoError
        /\ faults = 0
        /\ pc[g] = "idle"
        /\ Len(hist[g]) = MaxCalls
        /\ hist[g][1] # hist[g][2]
        /\ ret[g] = Returned("Send", NoError, FALSE)
        /\ sink = FramesOf(g)

\* ----------------------------------------------------------------- C3

\* The step is a call that sends, made by g.
SendCalledBy(g) == hist'[g] # hist[g]

\* C3: a Send called once the context is cancelled returns an error that wraps
\* the error of the context, with the message "context cancelled: <context
\* error>", writes nothing, flushes nothing and leaves the lock free for the
\* others; and after a cancellation that found no Send running, the sink
\* holds exactly the bytes it held at the cancellation, however many Sends
\* follow.
C3_SendAfterCancel ==
    /\ [](atCancel.quiet => sink = atCancel.sink)
    /\ [][\A g \in Goroutines :
            (ctxErr # NoError /\ SendCalledBy(g)) =>
               /\ ret'[g].err = <<"context cancelled">> \o ctxErr
               /\ ErrorString(ret'[g].err)
                      = "context cancelled: " \o ctxErr[1]
               /\ pc'[g] = "idle"
               /\ UNCHANGED <<sink, nflush, mu, log>>]_vars

\* One frame was sent, the context was then cancelled with no Send running,
\* and Send has been called again: it returned the error of the test suite,
\* and the sink holds the one frame.
C3_Witness ==
    /\ ctxErr = <<"context canceled">>
    /\ atCancel.quiet
    /\ Len(log) = 1
    /\ sink = log[1].frame
    /\ \E g \in Goroutines :
           /\ Len(hist[g]) >= 2
           /\ pc[g] = "idle"
           /\ ErrorString(ret[g].err) = "context cancelled: context canceled"

\* ----------------------------------------------------------------- C4

\* The step is a call that does not send: a call of IsClosed.
IsClosedCalled == ncalls' = ncalls + 1 /\ hist' = hist

\* C4: IsClosed answers true exactly when the context is cancelled, changes
\* nothing of the generator, and does not take the lock: once NewSSE has
\* returned the generator, an idle goroutine can make the call whoever holds
\* the mutex, and the call returns at once.
C4_IsClosed ==
    /\ [](\A g \in Goroutines :
            (ssePc = "returned" /\ pc[g] = "idle" /\ ncalls < MaxCalls)
                => ENABLED IsClosed(g))
    /\ [][IsClosedCalled =>
            \E g \in Goroutines :
                /\ pc[g] = "idle"
                /\ ret' = [ret EXCEPT ![g] =
                              Returned("IsClosed", NoError, ctxErr # NoError)]
                /\ UNCHANGED <<ctxErr, mu, wrapped, sink, nflush, pc, buf, wn,
                               faults, log>>]_vars

\* IsClosed has answered true to one goroutine while another, which entered
\* Send before the cancellation, is still writing under the lock.
C4_Witness ==
    \E g, h \in Goroutines :
        /\ g # h
        /\ mu = h /\ pc[h] = "write" /\ wn[h] > 0
        /\ ctxErr # NoError
        /\ pc[g] = "idle"
        /\ ret[g] = Returned("IsClosed", NoError, TRUE)

\* ----------------------------------------------------------------- C5

\* The event id given to the Send call, empty when none was.
SentEventId == LastOpt(encSend.opts, {"WithSSEEventId"}, WithSSEEventId(<<>>)).s

\* C5: every frame written by Send is, in this order, one event line, an id
\* line exactly when an event id was supplied, at most one retry line, one
\* data line per entry of dataLines in the order given, and then the
\* terminator; nothing else and nothing after it.
C5_FrameFieldOrder ==
    encPc = "done" =>
        LET body == BodyLines(encFrame)
            pre == <<eventLinePrefix \o encSend.eventType>>
                   \o (IF SentEventId # <<>>
                       THEN <<idLinePrefix \o SentEventId>> ELSE <<>>)
            post == [i \in 1..Len(encSend.dataLines) |->
                        dataLinePrefix \o encSend.dataLines[i]]
            end == EndLines(encFrame)
        IN /\ EndsWithNewline(encFrame)
           /\ end # <<>>
           /\ \A i \in 1..Len(end) : end[i] = <<>>
           /\ \/ body = pre \o post
              \/ /\ Len(body) = Len(pre) + Len(post) + 1
                 /\ SubSeq(body, 1, Len(pre)) = pre
                 /\ HasPrefix(body[Len(pre) + 1], retryLinePrefix)
                 /\ SubSeq(body, Len(pre) + 2, Len(body)) = post

\* A Send with an event id, a retry line and two different data lines is done.
C5_Witness ==
    /\ encPc = "done"
    /\ encCall.op = "Send"
    /\ SentEventId = <<"7">>
    /\ RetryValues(encFrame) # <<>>
    /\ encSend.dataLines = << <<"a">>, <<"b", " ", "c">> >>
    /\ Len(BodyLines(encFrame)) = 5

\* ----------------------------------------------------------------- C6

\* The newline bytes at the end of s.
RECURSIVE TrailingNewlines(_)
TrailingNewlines(s) ==
    IF s # <<>> /\ s[Len(s)] = "\n"
    THEN 1 + TrailingNewlines(SubSeq(s, 1, Len(s) - 1))
    ELSE 0

\* C6: every frame written by Send ends with a single blank line: after the
\* newline that ends its last prefixed line, exactly one more newline byte.
C6_SingleBlankLine ==
    encPc = "done" => TrailingNewlines(encFrame) = 2

\* ----------------------------------------------------------------- C7

RetryOptionNames ==
    {"WithSSERetryDuration", "WithRetryDuration",
     "WithPatchSignalsRetryDuration", "WithExecuteScriptRetryDuration"}

\* The retry duration given to the call: that of its last retry option, the
\* process default when it has none.
GivenRetryDuration ==
    LastOpt(encCall.opts, RetryOptionNames,
            WithSSERetryDuration(DefaultSseRetryDuration)).d

\* The frame carries exactly one retry line, whose value is the whole number
\* of milliseconds of d in decimal.
CarriesRetryOf(frame, d) ==
    LET r == RetryValues(frame) IN
    /\ Len(r) = 1
    /\ IsDecimal(r[1])
    /\ DecimalValue(r[1]) * Millisecond <= d
    /\ d < (DecimalValue(r[1]) + 1) * Millisecond

\* C7 as claimed: the frame omits the retry line when the duration equals the
\* process default and carries it when the duration differs from the default.
C7_RetryIffNotDefault ==
    encPc = "done" =>
        IF GivenRetryDuration = DefaultSseRetryDuration
        THEN RetryValues(encFrame) = <<>>
        ELSE CarriesRetryOf(encFrame, GivenRetryDuration)

\* C7 as amended: the frame carries the retry line exactly when the duration
\* is at least one millisecond and its whole number of milliseconds is not
\* that of the process default; it omits the line otherwise.
C7_RetryIffPositiveAndNotDefaultMs ==
    encPc = "done" =>
        IF /\ GivenRetryDuration >= Millisecond
           /\ ~ (/\ DefaultSseRetryDuration <= GivenRetryDuration
                 /\ GivenRetryDuration < DefaultSseRetryDuration + Millisecond)
        THEN CarriesRetryOf(encFrame, GivenRetryDuration)
        ELSE RetryValues(encFrame) = <<>>

\* A call given twice the default carries "retry: 2000", and a call given a
\* duration of zero is done as well.
C7_Witness ==
    /\ encPc = "done"
    /\ GivenRetryDuration = 2 * DefaultSseRetryDuration
    /\ RetryValues(encFrame) = << <<"2", "0", "0", "0">> >>

\* ----------------------------------------------------------------- C8

\* C8: the data lines of a PatchElements frame are, in this order, a selector
\* line only if a selector was set, a mode line only if the mode is not the
\* default outer, a useViewTransition true line only if view transitions are
\* enabled, then one elements line per line of the fragment, in fragment order.
C8_PatchElementsDataLines ==
    (encPc = "done" /\ encCall.op = "PatchElements") =>
        LET sel == LastOpt(encCall.opts, {"WithSelector"},
                           WithSelector(<<>>)).s
            mode == LastOpt(encCall.opts, {"WithMode"},
                            WithMode(ElementPatchModeOuter)).s
            uvt == LastOpt(encCall.opts, {"WithUseViewTransitions"},
                           WithUseViewTransitions(FALSE)).b
            lines == IF encCall.arg = <<>> THEN <<>> ELSE Pieces(encCall.arg)
        IN /\ HasPrefix(encFrame, eventLinePrefix \o EventTypePatchElements
                                  \o <<"\n">>)
           /\ DataValues(encFrame) =
                  (IF sel # <<>> THEN <<SelectorDatalineLiteral \o sel>>
                   ELSE <<>>)
                  \o (IF mode # ElementPatchModeOuter
                      THEN <<ModeDatalineLiteral \o mode>> ELSE <<>>)
                  \o (IF uvt
                      THEN <<UseViewTransitionDatalineLiteral
                             \o <<"t", "r", "u", "e">> >>
                      ELSE <<>>)
                  \o [i \in 1..Len(lines) |->
                         ElementsDatalineLiteral \o lines[i]]

\* Selector #x, mode append and a fragment of two lines: exactly the selector
\* line, the mode line and the two elements lines.
C8_Witness ==
    /\ encPc = "done"
    /\ encCall =
           Call("PatchElements",
                <<"<", "b", ">", "h", "i", "<", "/", "b", ">", "\n",
                  "<", "i", ">", "l", "o", "<", "/", "i", ">">>,
                <<>>,
                <<WithSelector(<<"#", "x">>),
                  WithMode(<<"a", "p", "p", "e", "n", "d">>)>>)
    /\ DataValues(encFrame) =
           << <<"s", "e", "l", "e", "c", "t", "o", "r", " ", "#", "x">>,
              <<"m", "o", "d", "e", " ", "a", "p", "p", "e", "n", "d">>,
              <<"e", "l", "e", "m", "e", "n", "t", "s", " ",
                "<", "b", ">", "h", "i", "<", "/", "b", ">">>,
              <<"e", "l", "e", "m", "e", "n", "t", "s", " ",
                "<", "i", ">", "l", "o", "<", "/", "i", ">">> >>

\* ----------------------------------------------------------------- C9

\* C9: the data lines of a PatchSignals frame are an onlyIfMissing line first,
\* when the option is on, then one signals line per physical line of the
\* payload, in payload order; the event type is the patch-signals token.
C9_PatchSignalsDataLines ==
    (encPc = "done" /\ encCall.op = "PatchSignals") =>
        LET oim == LastOpt(encCall.opts, {"WithOnlyIfMissing"},
                           WithOnlyIfMissing(FALSE)).b
            lines == Pieces(encCall.arg)
        IN /\ HasPrefix(encFrame, eventLinePrefix \o EventTypePatchSignals
                                  \o <<"\n">>)
           /\ DataValues(encFrame) =
                  (IF oim
                   THEN <<OnlyIfMissingDatalineLiteral
                          \o <<"t", "r", "u", "e">> >>
                   ELSE <<>>)
                  \o [i \in 1..Len(lines) |->
                         SignalsDatalineLiteral \o lines[i]]

\* onlyIfMissing=true and the payload {"a":1}: exactly the two lines.
C9_Witness ==
    /\ encPc = "done"
    /\ encCall =
           Call("PatchSignals",
                <<"{", "\"", "a", "\"", ":", "1", "}">>,
                <<>>,
                <<WithOnlyIfMissing(TRUE)>>)
    /\ BodyLines(encFrame)[1] =
           <<"e", "v", "e", "n", "t", ":", " ",
             "d", "a", "t", "a", "s", "t", "a", "r", "-", "p", "a", "t", "c",
             "h", "-", "s", "i", "g", "n", "a", "l", "s">>
    /\ DataValues(encFrame) =
           << <<"o", "n", "l", "y", "I", "f", "M", "i", "s", "s", "i", "n",
                "g", " ", "t", "r", "u", "e">>,
              <<"s", "i", "g", "n", "a", "l", "s", " ",
                "{", "\"", "a", "\"", ":", "1", "}">> >>

\* ----------------------------------------------------------------- C10

\* The script element the claim describes, for the attributes, the auto-remove
\* choice ("nil" when not given) and the script text.
ClaimedScriptElement(attrs, autoRemove, script) ==
    <<"<", "s", "c", "r", "i", "p", "t">>
    \o Flatten([i \in 1..Len(attrs) |-> <<" ">> \o attrs[i]])
    \o (IF autoRemove # "false"
        THEN <<" ", "d", "a", "t", "a", "-", "e", "f", "f", "e", "c", "t",
               "=", "\"", "e", "l", ".", "r", "e", "m", "o", "v", "e", "(",
               ")", "\"">>
        ELSE <<>>)
    \o <<">">> \o script
    \o <<"<", "/", "s", "c", "r", "i", "p", "t", ">">>

Negotiated == req.opts # <<>> /\ todo = <<>> /\ ssePc # "call"

\* The options WithCompression was called with.
GivenCompressionOptions == IF req.opts = <<>> THEN <<>> ELSE req.opts[1].l

\* The strategy the caller chose: the last strategy option, client priority
\* when there is none.
ChosenStrategy ==
    LastOpt(GivenCompressionOptions,
            {"WithClientPriority", "WithServerPriority", "WithForced"},
            WithClientPriority).name

\* The token a compressor option stands for.
TokenOf(name) ==
    CASE name = "WithGzip" -> <<"g", "z", "i", "p">>
      [] name = "WithDeflate" -> <<"d", "e", "f", "l", "a", "t", "e">>
      [] name = "WithBrotli" -> <<"b", "r">>
      [] name = "WithZstd" -> <<"z", "s", "t", "d">>

IsCompressorOption(o) ==
    o.name \in {"WithGzip", "WithDeflate", "WithBrotli", "WithZstd"}

\* The tokens of the configured compressors, in the order they were given;
\* brotli, zstd, gzip, deflate when the caller gave none.
ConfiguredTokens ==
    LET given == SelectSeq(GivenCompressionOptions, IsCompressorOption) IN
    IF given = <<>>
    THEN <<TokenOf("WithBrotli"), TokenOf("WithZstd"), TokenOf("WithGzip"),
           TokenOf("WithDeflate")>>
    ELSE [i \in 1..Len(given) |-> TokenOf(given[i].name)]

\* The tokens of the client, in header order.
ClientTokens == parseEncodings(req.AcceptEncoding)

Elements(q) == {q[i] : i \in 1..Len(q)}

\* The positions of a list whose token the other list holds too.
Matching(tokens, others) ==
    {i \in 1..Len(tokens) : tokens[i] \in Elements(others)}

\* The first of a non-empty set of positions.
Earliest(I) == CHOOSE i \in I : \A j \in I : i <= j

GzipThenBr == <<"g", "z", "i", "p", ",", " ", "b", "r">>

\* ----------------------------------------------------------------- C11

\* C11: under client priority, chosen or by default, the compressor that
\* wraps the writer is the one of the earliest client token that a configured
\* compressor has; a client that sends "gzip, br" gets gzip from a server
\* configured with brotli, then gzip.
C11_ClientPriority ==
    (Negotiated /\ ChosenStrategy = "WithClientPriority") =>
        /\ Matching(ClientTokens, ConfiguredTokens) # {} =>
              /\ wrapped
              /\ encoding =
                     ClientTokens[Earliest(Matching(ClientTokens,
                                                    ConfiguredTokens))]
        /\ (/\ req.AcceptEncoding = GzipThenBr
            /\ GivenCompressionOptions \in
                   {<<WithBrotli, WithGzip>>,
                    <<WithClientPriority, WithBrotli, WithGzip>>})
               => encoding = <<"g", "z", "i", "p">>

\* NewSSE has returned a generator for the client that sends "gzip, br" and
\* the compressors brotli, then gzip: its writer compresses with gzip.
C11_Witness ==
    /\ ssePc = "returned"
    /\ req.AcceptEncoding = GzipThenBr
    /\ req.opts = <<WithCompression(<<WithBrotli, WithGzip>>)>>
    /\ wrapped
    /\ encoding = <<"g", "z", "i", "p">>

\* ----------------------------------------------------------------- C12

\* C12: under server priority the compressor that wraps the writer is the
\* earliest configured compressor whose token is anywhere in the client's
\* list; a client that sends "gzip, br" gets br from a server configured with
\* brotli, then gzip.
C12_ServerPriority ==
    (Negotiated /\ ChosenStrategy = "WithServerPriority") =>
        /\ Matching(ConfiguredTokens, ClientTokens) # {} =>
              /\ wrapped
              /\ encoding =
                     ConfiguredTokens[Earliest(Matching(ConfiguredTokens,
                                                        ClientTokens))]
        /\ (/\ req.AcceptEncoding = GzipThenBr
            /\ SelectSeq(GivenCompressionOptions, IsCompressorOption)
                   = <<WithBrotli, WithGzip>>)
               => encoding = <<"b", "r">>

\* NewSSE has returned a generator for the client that sends "gzip, br" and
\* server priority over brotli, then gzip: its writer compresses with br.
C12_Witness ==
    /\ ssePc = "returned"
    /\ req.AcceptEncoding = GzipThenBr
    /\ req.opts =
           <<WithCompression(<<WithServerPriority, WithBrotli, WithGzip>>)>>
    /\ wrapped
    /\ encoding = <<"b", "r">>

\* ----------------------------------------------------------------- C13

\* C13: under the forced strategy the first configured compressor wraps the
\* writer whatever the Accept-Encoding header is, and brotli, the first of the
\* default list, when the caller configured none: some compressor always does.
C13_Forced ==
    (Negotiated /\ ChosenStrategy = "WithForced") =>
        /\ wrapped
        /\ encoding = ConfiguredTokens[1]
        /\ encoding # <<>>
        /\ SelectSeq(GivenCompressionOptions, IsCompressorOption) = <<>>
               => encoding = <<"b", "r">>

\* Forced, for a client that sent no Accept-Encoding and a client that asked
\* for zstd and deflate only, selected gzip.
C13_Witness ==
    /\ ssePc = "returned"
    /\ req.AcceptEncoding \in
           {<<>>, <<"z", "s", "t", "d", ",", "d", "e", "f", "l", "a", "t", "e">>}
    /\ req.opts = <<WithCompression(<<WithForced, WithGzip>>)>>
    /\ wrapped
    /\ encoding = <<"g", "z", "i", "p">>

\* ----------------------------------------------------------------- C14

\* One of the two priorities ran and no configured compressor has a token of
\* the client.
NoMatch ==
    /\ Negotiated
    /\ ChosenStrategy \in {"WithClientPriority", "WithServerPriority"}
    /\ Matching(ClientTokens, ConfiguredTokens) = {}

\* C14: when a priority finds no configured compressor among the client's
\* tokens, the sink stays the response writer itself, no Content-Encoding is
\* set or sent, and NewSSE goes on to the header flush and can return the
\* generator: the only way to a panic is a failed flush.
C14_NoMatchPassthrough ==
    /\ [](NoMatch =>
            /\ ~wrapped
            /\ encoding = <<>>
            /\ header["Content-Encoding"] = <<>>
            /\ committed # <<>> => committed[1]["Content-Encoding"] = <<>>
            /\ ssePc = "flush" => ENABLED (NewSSEFlush /\ ssePc' = "returned"))
    /\ [][ssePc' = "panicked" => ssePc \in {"flush", "panicked"}]_vars

\* NewSSE has returned a generator for a client that accepts "identity" only
\* and server priority over gzip: the sink is the response writer, and the
\* header the client got has no Content-Encoding.
C14_Witness ==
    /\ ssePc = "returned"
    /\ req.AcceptEncoding = <<"i", "d", "e", "n", "t", "i", "t", "y">>
    /\ req.opts = <<WithCompression(<<WithServerPriority, WithGzip>>)>>
    /\ ~wrapped
    /\ committed # <<>>
    /\ committed[1]["Content-Encoding"] = <<>>
    /\ committed[1]["Content-Type"] = TextEventStream

\* ----------------------------------------------------------------- C15

\* Send has handed bytes to the sink or called a flush.
SomethingSent == sink # <<>> \/ nflush # [w |-> 0, rc |-> 0]

\* C15: NewSSE applies every option, and with a compressor selected replaces
\* the sink and sets Content-Encoding to the token, before it flushes the
\* header: the header the client gets names the encoding of the wrapped sink,
\* nothing of the generator's configuration changes once the flush was tried,
\* and no byte is written or flushed before every option was applied.
C15_ConfiguredBeforeFlush ==
    /\ [](ssePc \in {"flush", "returned", "panicked"} => todo = <<>>)
    /\ [](committed # <<>> =>
            /\ ssePc = "returned"
            /\ wrapped <=> encoding # <<>>
            /\ committed[1]["Content-Encoding"] = encoding)
    /\ [](SomethingSent => todo = <<>> /\ committed # <<>>)
    /\ [][(wrapped' # wrapped \/ encoding' # encoding \/ header' # header
              \/ todo' # todo)
             => /\ ssePc \in {"call", "options"}
                /\ committed' = <<>>
                /\ ~SomethingSent]_vars

\* The client that sent "gzip, br" got a header with Content-Encoding gzip
\* from a generator whose sink is the compressing writer, and a Send has
\* written to it since.
C15_Witness ==
    /\ ssePc = "returned"
    /\ req.opts # <<>>
    /\ wrapped
    /\ encoding = <<"g", "z", "i", "p">>
    /\ committed = <<header>>
    /\ header["Content-Encoding"] = <<"g", "z", "i", "p">>
    /\ sink # <<>>
    /\ nflush.w > 0

\* ----------------------------------------------------------------- C16

\* C16: from its first step on NewSSE has set Cache-Control to no-cache and
\* Content-Type to text/event-stream, and Connection to keep-alive exactly
\* for an HTTP/1.x request; it returns only with that header flushed, and no
\* call is made, no frame encoded and no byte written before.
C16_HeadersBeforeEvents ==
    /\ [](ssePc # "call" =>
            /\ header["Cache-Control"] =
                   <<"n", "o", "-", "c", "a", "c", "h", "e">>
            /\ header["Content-Type"] =
                   <<"t", "e", "x", "t", "/", "e", "v", "e", "n", "t", "-",
                     "s", "t", "r", "e", "a", "m">>
            /\ header["Connection"] =
                   IF req.ProtoMajor = 1
                   THEN <<"k", "e", "e", "p", "-", "a", "l", "i", "v", "e">>
                   ELSE <<>>)
    /\ [](ssePc = "returned" => committed = <<header>>)
    /\ []((ncalls > 0 \/ log # <<>> \/ SomethingSent) => committed = <<header>>)
    /\ [][sink' # sink => committed = <<header>> /\ committed' = committed]_vars

\* An HTTP/2 client got the header without Connection, and a Send has written
\* to the sink since.
C16_Witness ==
    /\ ssePc = "returned"
    /\ req.ProtoMajor = 2
    /\ committed # <<>>
    /\ committed[1]["Connection"] = <<>>
    /\ committed[1]["Cache-Control"] = NoCache
    /\ sink # <<>>

\* ----------------------------------------------------------------- C17

\* The step is the header flush of NewSSE, and it failed: the client got no
\* header.
HeaderFlushFailed == ssePc = "flush" /\ ssePc' # "flush" /\ committed' = <<>>

\* C17: a failed header flush makes NewSSE panic, and after the panic there
\* is no generator: NewSSE never returns, no call is made on the stream, no
\* Send or IsClosed can be called, and nothing reaches the sink.
C17_FlushFailurePanics ==
    /\ [][HeaderFlushFailed => ssePc' = "panicked"]_vars
    /\ [][ssePc = "panicked" => ssePc' = "panicked"]_vars
    /\ [](ssePc = "panicked" =>
            /\ committed = <<>>
            /\ ncalls = 0
            /\ ~SomethingSent
            /\ \A g \in Goroutines :
                  /\ pc[g] = "idle"
                  /\ hist[g] = <<>>
                  /\ ~ENABLED IsClosed(g)
                  /\ \A c \in StreamCalls : ~ENABLED SendCall(g, c))

\* NewSSE has panicked on the flush after it had wrapped the sink and set
\* Content-Encoding, and the context has been cancelled since.
C17_Witness ==
    /\ ssePc = "panicked"
    /\ wrapped
    /\ header["Content-Encoding"] # <<>>
    /\ ctxErr # NoError
    /\ ncalls = 0

\* ----------------------------------------------------------------- C18

\* The step is the return of g's Send with an error from the given stage.
SendFailedAt(g, stage) ==
    pc[g] = stage /\ pc'[g] = "idle" /\ ret'[g].err # NoError

\* The number of times a Send has entered the stage.
Entered(g, stage) ==
    Cardinality({i \in 1..Len(stages[g]) : stages[g][i] = stage})

\* C18: a Send whose sink write, compression flush or transport flush fails
\* returns at that step with an error that names the stage and wraps what the
\* sink or the flush reported; it has entered no later stage, calls no flush
\* and writes no byte after the failure, and does nothing more until it is
\* called again. Within one Send each stage is entered at most once.
C18_StageFailure ==
    /\ [](\A g \in Goroutines :
             \A stage \in {"encode", "write", "flushW", "flushRc"} :
                 Entered(g, stage) <= 1)
    /\ [][\A g \in Goroutines :
            /\ SendFailedAt(g, "write") =>
                  /\ ret'[g].err =
                         <<"failed to write to response writer">> \o IOError
                  /\ ErrorString(ret'[g].err) =
                         "failed to write to response writer: broken pipe"
                  /\ stages'[g] = <<"encode", "write">>
                  /\ sink' = sink /\ nflush' = nflush /\ mu' = Nobody
            /\ SendFailedAt(g, "flushW") =>
                  /\ ret'[g].err =
                         <<"failed to flush compressing writer">> \o IOError
                  /\ ErrorString(ret'[g].err) =
                         "failed to flush compressing writer: broken pipe"
                  /\ stages'[g] = <<"encode", "write", "flushW">>
                  /\ sink' = sink /\ nflush'.rc = nflush.rc /\ mu' = Nobody
                  /\ nflush'.w = nflush.w + 1
            /\ SendFailedAt(g, "flushRc") =>
                  /\ ret'[g].err = <<"failed to flush data">> \o IOError
                  /\ ErrorString(ret'[g].err) =
                         "failed to flush data: broken pipe"
                  /\ stages'[g] \in
                         {<<"encode", "write", "flushRc">>,
                          <<"encode", "write", "flushW", "flushRc">>}
                  /\ sink' = sink /\ nflush'.w = nflush.w /\ mu' = Nobody
                  /\ nflush'.rc = nflush.rc + 1
            /\ (pc[g] = "idle" /\ ~SendCalledBy(g)) =>
                  /\ stages'[g] = stages[g]
                  /\ pc'[g] = "idle"]_vars

\* A Send on the compressing writer has returned the error of a failed
\* compression flush: the sink holds its whole frame, and the transport was
\* never flushed.
C18_Witness ==
    \E g \in Goroutines :
        /\ pc[g] = "idle"
        /\ ret[g].err = <<"failed to flush compressing writer", "broken pipe">>
        /\ stages[g] = <<"encode", "write", "flushW">>
        /\ sink = SendFrame(args[g])
        /\ nflush = [w |-> 1, rc |-> 0]

\* ----------------------------------------------------------------- C19

\* The step is the return of g's Send without an error.
SendSucceeded(g) ==
    pc[g] = "flushRc" /\ pc'[g] = "idle" /\ ret'[g].err = NoError

\* The stages of a Send, in order, for a sink that compresses or not.
StageOrder(compressing) ==
    IF compressing THEN <<"encode", "write", "flushW", "flushRc">>
    ELSE <<"encode", "write", "flushRc">>

IsPrefix(p, q) == Len(p) <= Len(q) /\ p = SubSeq(q, 1, Len(p))

IsSuffix(p, q) ==
    Len(p) <= Len(q) /\ p = SubSeq(q, Len(q) - Len(p) + 1, Len(q))

\* C19: a Send returns an error only if the context was cancelled when it was
\* called or a stage failed; it enters its stages in the order encode, write,
\* compression flush (compressing writer only), transport flush, and the
\* whole frame is encoded before the write starts; when it returns
\* without error the sink ends with its frame, every byte of the sink has
\* passed the compression flush and the transport flush, and its buffer is
\* released.
C19_SendStages ==
    /\ [](\A g \in Goroutines :
             /\ IsPrefix(stages[g], StageOrder(wrapped))
             /\ pc[g] \in {"write", "flushW", "flushRc"} =>
                   buf[g] = SendFrame(args[g]))
    /\ [][\A g \in Goroutines :
            /\ SendSucceeded(g) =>
                  /\ stages'[g] = StageOrder(wrapped)
                  /\ IsSuffix(SendFrame(args[g]), sink')
                  /\ out' = [w |-> Len(sink'), rc |-> Len(sink')]
                  /\ buf'[g] = <<>>
                  /\ mu' = Nobody
            /\ ((SendCalledBy(g) \/ pc[g] # "idle") /\ pc'[g] = "idle"
                   /\ ret'[g].err # NoError) =>
                  \/ pc[g] = "idle" /\ ctxErr # NoError
                  \/ faults' = faults + 1]_vars

\* A Send on the compressing writer has returned without error after all four
\* stages: the sink holds its frame, and all of it has been flushed through.
C19_Witness ==
    \E g \in Goroutines :
        /\ wrapped
        /\ pc[g] = "idle"
        /\ ret[g] = Returned("Send", NoError, FALSE)
        /\ stages[g] = <<"encode", "write", "flushW", "flushRc">>
        /\ sink = SendFrame(args[g])
        /\ out = [w |-> Len(sink), rc |-> Len(sink)]
        /\ nflush = [w |-> 1, rc |-> 1]

\* ----------------------------------------------------------------- C20

\* The log has one entry per buffer handed to the sink, in the order of the
\* sink, with the bytes of the frame the sink took: a frame is partial when
\* the sink took some of its bytes and not all.
PartialFrame(e) == 0 < e.n /\ e.n < Len(e.frame)

\* C20: every frame that starts on the sink is preceded by complete frames
\* only: no Send has put bytes on the sink after a partial frame.
C20_FrameBoundaries ==
    \A i, j \in 1..Len(log) :
        (i < j /\ log[j].n > 0) => ~PartialFrame(log[i])

\* ----------------------------------------------------------------- C21

\* The query of the request ReadSignals was called with.
GivenQuery == readCall.r.Query

\* The reserved key is not in the query.
KeyAbsent ==
    \A i \in 1..Len(GivenQuery) :
        GivenQuery[i].key # <<"d", "a", "t", "a", "s", "t", "a", "r">>

\* The reserved key is in the query, and its first value is empty.
KeyEmpty ==
    \E i \in 1..Len(GivenQuery) :
        /\ GivenQuery[i].key = <<"d", "a", "t", "a", "s", "t", "a", "r">>
        /\ GivenQuery[i].value = <<>>
        /\ \A j \in 1..(i - 1) :
              GivenQuery[j].key # <<"d", "a", "t", "a", "s", "t", "a", "r">>

\* C21: ReadSignals on a GET request without the reserved key in its query,
\* or with an empty value for it, returns no error, and the structure is as
\* the caller handed it in.
C21_EmptyQueryNoOp ==
    (/\ readPc = "done"
     /\ readCall.r.Method = "GET"
     /\ KeyAbsent \/ KeyEmpty)
        => readRet = NoError /\ target = readCall.signals

\* ReadSignals has returned for a GET request whose query holds the key with
\* an empty value: the filled structure the caller gave is as it was.
C21_Witness ==
    /\ readPc = "done"
    /\ readCall.r.Method = "GET"
    /\ readCall.r.Query = <<QueryPair(DatastarKey, <<>>)>>
    /\ readCall.signals = Signals(7, <<"k">>)
    /\ target = Signals(7, <<"k">>)
    /\ readRet = NoError

\* ----------------------------------------------------------------- C22

\* The payload of the request: the first value of the reserved key for GET,
\* the body for the other methods.
GivenPayload ==
    IF readCall.r.Method = "GET"
    THEN QueryGet(GivenQuery, <<"d", "a", "t", "a", "s", "t", "a", "r">>)
    ELSE readCall.r.Body

\* The payload can be read: it is in the query, or the body is open.
PayloadRead == readCall.r.Method = "GET" \/ readCall.r.BodyState = "open"

\* The payload is JSON that fits the structure.
PayloadFits == Unmarshal(GivenPayload, readCall.signals).err = NoError

\* C22: ReadSignals tells three outcomes apart: a body read after close gives
\* the error "body already closed ..." around http.ErrBodyReadAfterClose, a
\* payload that is there and does not decode into the structure gives the
\* error "failed to unmarshal" around the decoder's error, and an empty
\* payload, in the query or in the body, gives no error.
C22_ThreeOutcomes ==
    readPc = "done" =>
        /\ (readCall.r.Method # "GET" /\ readCall.r.BodyState = "closed") =>
              readRet =
                  <<"body already closed, are you sure you created the SSE ***AFTER*** the ReadSignals?",
                    "http: invalid Read on closed Body">>
        /\ (PayloadRead /\ GivenPayload # <<>> /\ ~PayloadFits) =>
              /\ Len(readRet) = 2
              /\ readRet[1] = "failed to unmarshal"
        /\ (PayloadRead /\ GivenPayload = <<>>) => readRet = NoError

\* ----------------------------------------------------------------- C23

\* The string forms of the modes listed in ValidElementPatchModes.
ModeNames ==
    {<<"o", "u", "t", "e", "r">>, <<"i", "n", "n", "e", "r">>,
     <<"r", "e", "m", "o", "v", "e">>, <<"p", "r", "e", "p", "e", "n", "d">>,
     <<"a", "p", "p", "e", "n", "d">>, <<"b", "e", "f", "o", "r", "e">>,
     <<"a", "f", "t", "e", "r">>, <<"r", "e", "p", "l", "a", "c", "e">>}

\* C23: ElementPatchModeFromString returns the mode and no error for the
\* string of each of the eight modes of ValidElementPatchModes, and an error
\* for every other string, the empty one included.
C23_ModeFromString ==
    /\ {ValidElementPatchModes[i] : i \in 1..Len(ValidElementPatchModes)}
           = ModeNames
    /\ Len(ValidElementPatchModes) = 8
    /\ modePc = "done" =>
          IF modeArg \in ModeNames
          THEN modeRet = ModeResult(modeArg, NoError)
          ELSE modeRet.err # NoError /\ modeRet.mode = <<>>

\* The conversion has accepted "replace", the last mode of the list.
C23_Witness ==
    /\ modePc = "done"
    /\ modeArg = <<"r", "e", "p", "l", "a", "c", "e">>
    /\ modeRet = ModeResult(ElementPatchModeReplace, NoError)

\* ----------------------------------------------------------------- C24

\* The values of the mode lines of a frame: what follows "data: mode ".
ModeTokens(frame) ==
    FieldValues(DataValues(frame), ModeDatalineLiteral)

\* C24: a PatchElements frame carries no "mode <token>" line whose token is
\* not one of the eight valid modes.
C24_ModeLinesValid ==
    (encPc = "done" /\ encCall.op = "PatchElements") =>
        \A i \in 1..Len(ModeTokens(encFrame)) :
            ModeTokens(encFrame)[i] \in ModeNames

\* ----------------------------------------------------------------- C25

\* The sink has taken bytes in this step.
SinkWritten == sink' # sink

\* Goroutine g is in the write of its Send and holds the mutex.
WritesUnderLock(g) == pc[g] = "write" /\ mu = g

\* C25: once NewSSE has returned, no step changes the sink reference or the
\* encoding; the sink takes bytes, and is flushed, only in a step of a Send
\* whose goroutine holds the mutex: nothing writes or flushes in the
\* background.
C25_SinkFixedAfterNewSSE ==
    [][/\ ssePc = "returned" =>
              /\ ssePc' = "returned"
              /\ wrapped' = wrapped
              /\ encoding' = encoding
       /\ SinkWritten =>
              \E g \in Goroutines :
                  /\ WritesUnderLock(g)
                  /\ sink' = sink \o SubSeq(buf[g], wn[g] + 1, wn'[g])
                  /\ \A h \in Goroutines \ {g} : ~InsideSend(h)
       /\ (nflush' # nflush \/ out' # out) =>
              \E g \in Goroutines : InsideSend(g) /\ mu = g]_vars

\* A compressing generator whose second Send is writing: the sink holds the
\* first frame and part of the second.
C25_Witness ==
    /\ ssePc = "returned"
    /\ wrapped
    /\ encoding # <<>>
    /\ Len(log) = 2
    /\ \E g \in Goroutines :
           /\ WritesUnderLock(g)
           /\ 0 < wn[g]
           /\ wn[g] < Len(buf[g])
           /\ sink = log[1].frame \o SubSeq(buf[g], 1, wn[g])

\* ----------------------------------------------------------------- C26

\* The field lines of a frame that are no data lines: event, id and retry.
HeadLines(frame) ==
    LET lines == BodyLines(frame) IN
    SubSeq(lines, 1,
           Len(lines) - Len(FieldValues(lines, dataLinePrefix)))

\* The arguments of a Send name an option of one of the names.
Gives(a, names) == \E k \in 1..Len(a.opts) : a.opts[k].name \in names

\* C26: the frame of a Send is a function of the event type, the data lines
\* and the options of that call alone: two Sends of the same arguments give
\* the same frame whatever was sent between them, and a Send whose options
\* set no id (no retry duration) has no id (no retry) line, whatever ids and
\* retry durations the Sends before it carried.
C26_NoEventStateKept ==
    \A i \in 1..Len(log) :
        /\ log[i].frame = SendFrame(log[i].args)
        /\ \A j \in 1..Len(log) :
               log[j].args = log[i].args => log[j].frame = log[i].frame
        /\ ~Gives(log[i].args, {"WithSSEEventId"}) =>
               FieldValues(HeadLines(log[i].frame), idLinePrefix) = <<>>
        /\ ~Gives(log[i].args, {"WithSSERetryDuration"}) =>
               FieldValues(HeadLines(log[i].frame), retryLinePrefix) = <<>>

\* A Send with an id and a retry duration was followed by a Send without
\* options: the first frame has the id line and the retry line, the second
\* has neither.
C26_Witness ==
    /\ Len(log) = 2
    /\ Gives(log[1].args, {"WithSSEEventId"})
    /\ Gives(log[1].args, {"WithSSERetryDuration"})
    /\ FieldValues(HeadLines(log[1].frame), idLinePrefix) = << <<"7">> >>
    /\ Len(FieldValues(HeadLines(log[1].frame), retryLinePrefix)) = 1
    /\ log[2].args.opts = <<>>
    /\ log[2].n = Len(log[2].frame)
    /\ FieldValues(HeadLines(log[2].frame), idLinePrefix) = <<>>
    /\ FieldValues(HeadLines(log[2].frame), retryLinePrefix) = <<>>

\* ----------------------------------------------------------------- C27

\* The byte string has a newline byte in it.
HasNewline(s) == \E k \in 1..Len(s) : s[k] = "\n"

\* A line of a frame is an id line, a retry line or a data line.
IsFieldLine(line) ==
    \/ HasPrefix(line, idLinePrefix)
    \/ HasPrefix(line, retryLinePrefix)
    \/ HasPrefix(line, dataLinePrefix)

\* C27: whatever the fragment, payload, script, selector and event id given to
\* PatchElements, PatchSignals or ExecuteScript, no data line handed to Send
\* has a newline byte in it, and every line of the frame between the event
\* line and the terminator starts with "id: ", "retry: " or "data: ".
C27_OneDataLineOneWireLine ==
    (encPc = "done"
     /\ encCall.op \in {"PatchElements", "PatchSignals", "ExecuteScript"}) =>
        /\ \A i \in 1..Len(encSend.dataLines) :
               ~HasNewline(encSend.dataLines[i])
        /\ \A i \in 2..Len(BodyLines(encFrame)) :
               IsFieldLine(BodyLines(encFrame)[i])

\* ----------------------------------------------------------------- C28

\* The entries of the log that belong to goroutine g, in log order.
RECURSIVE EntriesIn(_, _)
EntriesIn(entries, g) ==
    IF entries = <<>> THEN <<>>
    ELSE (IF Head(entries).g = g THEN <<Head(entries)>> ELSE <<>>)
         \o EntriesIn(Tail(entries), g)

\* C28: with several producers on one generator the frames lie on the sink
\* in the order in which their Sends took the mutex, whole frame after whole
\* frame, and the frames of each producer lie in the order of its calls.
C28_LockOrder ==
    /\ Len(log) <= Len(locks)
    /\ \A i \in 1..Len(log) : log[i].g = locks[i]
    /\ sink = LoggedBytes
    /\ \A i \in 1..(Len(log) - 1) : log[i].n = Len(log[i].frame) \/ faults > 0
    /\ \A g \in Goroutines :
           LET mine == EntriesIn(log, g) IN
           /\ Len(mine) <= Len(hist[g])
           /\ \A k \in 1..Len(mine) :
                  /\ mine[k].args = hist[g][k]
                  /\ mine[k].frame = SendFrame(hist[g][k])

\* Two producers have sent one frame each, the second goroutine taking the
\* mutex first: its frame lies first on the sink, the other's after it.
C28_Witness ==
    /\ locks = <<2, 1>>
    /\ Len(log) = 2
    /\ log[1].frame # log[2].frame
    /\ \A g \in Goroutines : pc[g] = "idle" /\ ret[g].err = NoError
    /\ sink = SendFrame(hist[2][1]) \o SendFrame(hist[1][1])

\* ----------------------------------------------------------------- C29

\* C29: every frame has one data line or more, also the frame of a Send
\* with an empty list of data lines and the frame of PatchElements with an
\* empty fragment and default options.
C29_SomeDataLine ==
    encPc = "done" => Len(DataValues(encFrame)) >= 1

\* ----------------------------------------------------------------- C30

\* The data lines of the frame have the line among them.
HasDataLine(frame, line) ==
    \E i \in 1..Len(DataValues(frame)) : DataValues(frame)[i] = line

\* C30: for every selector and every list of further options the frame of
\* RemoveElement carries the line "selector <selector>" and the line
\* "mode remove", and no elements line.
C30_RemoveElementFrame ==
    (encPc = "done" /\ encCall.op = "RemoveElement") =>
        /\ HasDataLine(encFrame, SelectorDatalineLiteral \o encCall.arg)
        /\ HasDataLine(encFrame,
                       ModeDatalineLiteral \o <<"r", "e", "m", "o", "v", "e">>)
        /\ FieldValues(DataValues(encFrame), ElementsDatalineLiteral) = <<>>

\* ----------------------------------------------------------------- C32

\* C32: a Send called after the cancellation fails fast. The call can be made
\* and returns in the same step whoever holds the mutex, also a goroutine in
\* the middle of its write to the sink; it returns the cancellation error,
\* does not take the mutex or wait for it, and encodes nothing.
C32_FailFast ==
    /\ [](\A g \in Goroutines : \A c \in StreamCalls :
            (/\ ssePc = "returned"
             /\ ctxErr # NoError
             /\ pc[g] = "idle"
             /\ ncalls < MaxCalls)
            => ENABLED SendCall(g, c))
    /\ [][\A g \in Goroutines :
            (ctxErr # NoError /\ SendCalledBy(g)) =>
               /\ pc[g] = "idle" /\ pc'[g] = "idle"
               /\ ret'[g].err # NoError
               /\ ret'[g].err[Len(ret'[g].err)] = ctxErr[1]
               /\ stages'[g] = <<>>
               /\ UNCHANGED <<mu, locks, buf, wn, log, sink>>]_vars

\* A goroutine holds the mutex in the middle of its write when the context
\* is cancelled; the other goroutine then calls Send and has its error back
\* while the first still holds the mutex, without having asked for it.
C32_Witness ==
    \E g, h \in Goroutines :
        /\ g # h
        /\ mu = h /\ pc[h] = "write"
        /\ 0 < wn[h] /\ wn[h] < Len(buf[h])
        /\ ctxErr # NoError
        /\ Len(hist[g]) = 1
        /\ pc[g] = "idle"
        /\ ret[g].err = <<"context cancelled">> \o ctxErr
        /\ locks = <<h>>
        /\ Len(log) = 1

\* ----------------------------------------------------------------- C33

\* Goroutine g starts its write in this step: the sink takes the first bytes
\* of its buffer.
WriteStartedBy(g) == pc[g] = "write" /\ wn[g] = 0 /\ wn'[g] > 0

\* C33: no write to the sink starts once the context is cancelled, also not
\* the write of a Send that was called before the cancellation and was
\* waiting for the mutex, or had passed the check of the context.
C33_NoWriteAfterCancel ==
    [][\A g \in Goroutines : WriteStartedBy(g) => ctxErr = NoError]_vars

\* ----------------------------------------------------------------- C34

\* Goroutine g returns from Send in this step, having held the mutex.
ReturnsFromSend(g) == InsideSend(g) /\ pc'[g] = "idle"

\* C34: Send unlocks the mutex on every return, with or without an error:
\* the mutex is held only by a goroutine inside Send, every return of the
\* holder frees it, and when the write to the sink and the flushes return
\* every call of Send returns; no Send waits for the mutex for ever, also
\* not after a Send that failed.
C34_LockReleased ==
    /\ [](\A g \in Goroutines : mu = g <=> InsideSend(g))
    /\ [][\A g \in Goroutines :
            ReturnsFromSend(g) => mu = g /\ mu' = Nobody]_vars
    /\ \A g \in Goroutines : (pc[g] # "idle") ~> (pc[g] = "idle")
    /\ \A g \in Goroutines : (pc[g] = "lock") ~> (mu = g)

\* The write of one goroutine has failed, and the other goroutine has then
\* taken the mutex, sent its frame and returned without error.
C34_Witness ==
    \E g, h \in Goroutines :
        /\ g # h
        /\ locks = <<g, h>>
        /\ pc[g] = "idle"
        /\ ret[g].err = <<"failed to write to response writer">> \o IOError
        /\ pc[h] = "idle"
        /\ ret[h].err = NoError
        /\ mu = Nobody
        /\ Len(log) = 2
        /\ log[2].n = Len(log[2].frame)

\* ----------------------------------------------------------------- C35

\* C35: when NewSSE has returned, whatever options it was given, also
\* WithCompression more than once, at most one compressor wraps the sink,
\* and the Content-Encoding field is set exactly when one does and names the
\* encoding of that compressor.
C35_OneCompressor ==
    ssePc = "returned" =>
        /\ Len(layers) <= 1
        /\ header["Content-Encoding"] # <<>> <=> layers # <<>>
        /\ \A i \in 1..Len(layers) : header["Content-Encoding"] = layers[i]
        /\ committed = <<header>>

\* ----------------------------------------------------------------- C36

\* C36: every retry line of a frame carries a positive whole number of
\* milliseconds, and a call whose retry duration is zero, negative or shorter
\* than a millisecond gives a frame without retry line, whether the call is
\* Send, PatchElements, PatchSignals or ExecuteScript.
C36_RetryPositive ==
    encPc = "done" =>
        /\ \A i \in 1..Len(RetryValues(encFrame)) :
               /\ IsDecimal(RetryValues(encFrame)[i])
               /\ RetryValues(encFrame)[i][1] # "0"
               /\ DecimalValue(RetryValues(encFrame)[i]) > 0
        /\ GivenRetryDuration < Millisecond => RetryValues(encFrame) = <<>>

\* PatchSignals was given half a millisecond as its retry duration, and the
\* frame has no retry line.
C36_Witness ==
    /\ encPc = "done"
    /\ encCall.op = "PatchSignals"
    /\ GivenRetryDuration = Millisecond \div 2
    /\ RetryValues(encFrame) = <<>>
    /\ encFrame # <<>>

\* ----------------------------------------------------------------- C37

\* 1 for a line that is there, 0 for one that is not.
Count(present) == IF present THEN 1 ELSE 0

\* C37: the two patch operations encode an empty payload differently. The
\* frame of PatchElements with an empty fragment has no elements line: its
\* data lines are the selector, mode and useViewTransition lines that apply
\* and nothing else. The frame of PatchSignals with an empty payload has
\* exactly one signals line, and its value is empty.
C37_EmptyPayload ==
    /\ (encPc = "done" /\ encCall.op = "PatchElements" /\ encCall.arg = <<>>)
       => /\ FieldValues(DataValues(encFrame), ElementsDatalineLiteral) = <<>>
          /\ Len(DataValues(encFrame)) =
                 Count(LastOpt(encCall.opts, {"WithSelector"},
                               WithSelector(<<>>)).s # <<>>)
                 + Count(LastOpt(encCall.opts, {"WithMode"},
                                 WithMode(ElementPatchModeOuter)).s
                             # ElementPatchModeOuter)
                 + Count(LastOpt(encCall.opts, {"WithUseViewTransitions"},
                                 WithUseViewTransitions(FALSE)).b)
    /\ (encPc = "done" /\ encCall.op = "PatchSignals" /\ encCall.arg = <<>>)
       => /\ FieldValues(DataValues(encFrame), SignalsDatalineLiteral)
                 = << <<>> >>
          /\ DataValues(encFrame)[Len(DataValues(encFrame))]
                 = SignalsDatalineLiteral

\* PatchElements with an empty fragment, a selector and the append mode: the
\* frame has the selector line and the mode line, and that is all.
C37_Witness ==
    /\ encPc = "done"
    /\ encCall.op = "PatchElements"
    /\ encCall.arg = <<>>
    /\ DataValues(encFrame) =
           <<SelectorDatalineLiteral \o <<"#", "x">>,
             ModeDatalineLiteral \o ElementPatchModeAppend>>

\* ----------------------------------------------------------------- C38

\* The parts of a list with a separator between each two of them.
RECURSIVE Join(_, _)
Join(parts, sep) ==
    IF parts = <<>> THEN <<>>
    ELSE IF Len(parts) = 1 THEN parts[1]
    ELSE parts[1] \o <<sep>> \o Join(Tail(parts), sep)

\* How many newline characters s has.
Newlines(s) == Cardinality({k \in 1..Len(s) : s[k] = NewLine})

\* The values of the data lines of the frame just encoded that carry a prefix.
FrameValues(prefix) == FieldValues(DataValues(encFrame), prefix)

\* C38: line splitting loses nothing. For every non-empty fragment given to
\* PatchElements and every payload given to PatchSignals, the values of the
\* frame's elements (signals) data lines, joined in order with a newline, are
\* the fragment (the payload) again, and there is one such line more than the
\* input has newline characters.
C38_SplitLosesNothing ==
    /\ (encPc = "done" /\ encCall.op = "PatchElements" /\ encCall.arg # <<>>)
       => /\ Join(FrameValues(ElementsDatalineLiteral), NewLine) = encCall.arg
          /\ Len(FrameValues(ElementsDatalineLiteral))
                 = Newlines(encCall.arg) + 1
    /\ (encPc = "done" /\ encCall.op = "PatchSignals")
       => /\ Join(FrameValues(SignalsDatalineLiteral), NewLine) = encCall.arg
          /\ Len(FrameValues(SignalsDatalineLiteral))
                 = Newlines(encCall.arg) + 1

\* PatchElements with a fragment that ends in a newline: two elements lines,
\* the second one empty.
C38_Witness ==
    /\ encPc = "done"
    /\ encCall.op = "PatchElements"
    /\ encCall.arg = <<"a", "\n">>
    /\ FrameValues(ElementsDatalineLiteral) = << <<"a">>, <<>> >>

\* ----------------------------------------------------------------- C39

\* The parts of an Accept-Encoding header, each without its parameters.
CutParts(accept) ==
    LET parts == Split(accept, ",") IN
    [i \in 1..Len(parts) |-> BeforeSemicolon(parts[i])]

\* The header with the parameters of every part taken away.
WithoutParameters(accept) == Join(CutParts(accept), ",")

NotEmpty(token) == token # <<>>

\* The names the header lists, in header order: each part without its
\* parameters and without the whitespace around it, when something is left.
ListedNames(accept) ==
    LET cut == CutParts(accept) IN
    SelectSeq([i \in 1..Len(cut) |-> TrimSpace(cut[i])], NotEmpty)

\* C39: the tokens parsed from the client's Accept-Encoding header are the
\* names it lists, in header order; none of them is empty and none begins or
\* ends with whitespace, also when whitespace precedes the semicolon; and the
\* compressor selected is the one selected for the same header without its
\* quality values.
C39_AcceptEncodingTokens ==
    Negotiated =>
        /\ ClientTokens = ListedNames(req.AcceptEncoding)
        /\ \A i \in 1..Len(ClientTokens) :
               /\ ClientTokens[i] # <<>>
               /\ TrimSpace(ClientTokens[i]) = ClientTokens[i]
        /\ encoding = SelectedEncoding(WithoutParameters(req.AcceptEncoding),
                                       GivenCompressionOptions)

====
